---- MODULE Spec2Model ----
(***************************************************************************)
(* A model of xitonix/configor: New, GetEnvironment, the file resolver     *)
(* (getConfigurationFiles), the format dispatch (processFile) and the      *)
(* recursive field walk (processTags).                                     *)
(*                                                                         *)
(* Representation                                                          *)
(*   - An environment-variable or field name is a sequence of segments;    *)
(*     the Go expression a + "_" + b is the concatenation a \o b, so       *)
(*     "APP_DB_Name" is <<"APP", "DB", "Name">> and the serialization name *)
(*     "first_name" is <<"first", "name">>.  strings.ToUpper maps every    *)
(*     segment through UpperOf.                                            *)
(*   - A file name is the sequence of its dot-separated segments:          *)
(*     "a.production.yaml" is <<"a", "production", "yaml">>.               *)
(*   - A target is addressed by paths: a path is the sequence of field     *)
(*     indexes (1-based, declaration order) and sequence-element indexes   *)
(*     (0-based) that leads from the root structure to a value.            *)
(*   - Environment values and default tags are strings; ParseInt is the    *)
(*     YAML decoding of such a string into an integer field.               *)
(***************************************************************************)
EXTENDS Integers, Sequences, FiniteSets, TLC

\* The longest sequence the bounded file contents give to a sequence field.
MaxLen == 1

\* The largest number of candidate files passed to one Load call.
MaxCandidates == 2

----------------------------------------------------------------------------
(* Names and strings *)

\* strings.ToUpper on one segment.
UpperOf(s) ==
    CASE s = "Configor" -> "CONFIGOR"
      [] s = "app" -> "APP"
      [] s = "APPName" -> "APPNAME"
      [] s = "Port" -> "PORT"
      [] s = "port" -> "PORT"
      [] s = "Password" -> "PASSWORD"
      [] s = "pass" -> "PASS"
      [] s = "DBPassword" -> "DBPASSWORD"
      [] s = "private" -> "PRIVATE"
      [] s = "database" -> "DATABASE"
      [] s = "Name" -> "NAME"
      [] s = "name" -> "NAME"
      [] s = "user" -> "USER"
      [] s = "Endpoint" -> "ENDPOINT"
      [] s = "ep" -> "EP"
      [] s = "ContactPtr" -> "CONTACTPTR"
      [] s = "contact" -> "CONTACT"
      [] s = "ptr" -> "PTR"
      [] s = "first" -> "FIRST"
      [] s = "Email" -> "EMAIL"
      [] s = "Connection" -> "CONNECTION"
      [] s = "integer" -> "INTEGER"
      [] s = "Contacts" -> "CONTACTS"
      [] s = "Anonymous" -> "ANONYMOUS"
      [] s = "Description" -> "DESCRIPTION"
      [] s = "Host" -> "HOST"
      [] s = "Timeout" -> "TIMEOUT"
      [] s = "endpoint" -> "ENDPOINT"
      [] s = "omitempty" -> "OMITEMPTY"
      [] OTHER -> s

\* strings.ToUpper on a name.
ToUpper(n) == [i \in DOMAIN n |-> UpperOf(n[i])]

\* The sequence without its duplicates' order: the set of its elements.
Range(s) == {s[i] : i \in DOMAIN s}

\* yaml.Unmarshal of a literal into an integer field: <<v>> for the literal
\* of the integer v, << >> for a literal that is not an integer.
ParseInt(s) ==
    CASE s = "0" -> <<0>>
      [] s = "7" -> <<7>>
      [] s = "8" -> <<8>>
      [] s = "9" -> <<9>>
      [] OTHER -> << >>

----------------------------------------------------------------------------
(* Target types: the structures of the tests and of the example programs *)

NoName == << >>

\* A json tag is the sequence of its comma-separated parts; NoTag is the
\* absent (empty) tag.
NoTag == << >>

\* One reflect.StructField: its name, its tags, its kind and element type.
Fld(name, json, env, def, req, kind, elem, exported, anon) ==
    [Name |-> name, json |-> json, env |-> env, default |-> def,
     required |-> req, kind |-> kind, elem |-> elem,
     exported |-> exported, anonymous |-> anon]

\* The fields of every structure type, in declaration order.
StructTypes ==
    [Config |-> <<
        Fld("APPName", NoTag, NoName, "9", FALSE, "int", "", TRUE, ""),
        Fld("Port", <<<<"port">>>>, NoName, "", TRUE, "int", "", TRUE, ""),
        Fld("Password", <<<<"pass">>>>, <<"DBPassword">>, "", TRUE, "int", "", TRUE, ""),
        Fld("private", NoTag, NoName, "", FALSE, "int", "", FALSE, "") >>,
     Nested |-> <<
        Fld("DB", <<<<"database">>>>, NoName, "", FALSE, "struct", "Connection", TRUE, ""),
        Fld("ContactPtr", <<<<"contact", "ptr">>>>, NoName, "", FALSE, "ptrstruct", "Contact", TRUE, "") >>,
     Connection |-> <<
        Fld("Name", <<<<"user", "name">>>>, NoName, "", FALSE, "int", "", TRUE, ""),
        Fld("Password", <<<<"pass">>>>, <<"DBPassword">>, "", FALSE, "int", "", TRUE, ""),
        Fld("Endpoint", <<<<"ep">>, <<"omitempty">>>>, NoName, "", TRUE, "int", "", TRUE, "") >>,
     Contact |-> <<
        Fld("Name", <<<<"first", "name">>>>, NoName, "", FALSE, "int", "", TRUE, ""),
        Fld("Email", NoTag, NoName, "", TRUE, "int", "", TRUE, "") >>,
     Example |-> <<
        Fld("Connection", NoTag, NoName, "", FALSE, "ptrstruct", "ExConnection", TRUE, "embedded"),
        Fld("Port", <<<<"port">>>>, NoName, "", TRUE, "int", "", TRUE, ""),
        Fld("I", <<<<"integer">>>>, NoName, "", TRUE, "ptrint", "", TRUE, "") >>,
     ExConnection |-> <<
        Fld("Endpoint", <<<<"endpoint">>>>, NoName, "", TRUE, "int", "", TRUE, "") >>,
     SeqCfg |-> <<
        Fld("Contacts", NoTag, NoName, "", FALSE, "slice", "Contact", TRUE, ""),
        Fld("APPName", NoTag, NoName, "9", FALSE, "int", "", TRUE, "") >>,
     SeqPtrCfg |-> <<
        Fld("Contacts", NoTag, NoName, "", FALSE, "sliceptr", "Contact", TRUE, "") >>,
     AnonCfg |-> <<
        Fld("Anonymous", NoTag, NoName, "", FALSE, "struct", "Anonymous", TRUE, "tagged"),
        Fld("Port", NoTag, NoName, "9", FALSE, "int", "", TRUE, "") >>,
     Anonymous |-> <<
        Fld("Description", NoTag, NoName, "", FALSE, "int", "", TRUE, "") >>,
     PtrCfg |-> <<
        Fld("Timeout", NoTag, NoName, "9", FALSE, "ptrint", "", TRUE, ""),
        Fld("Port", <<<<"port">>>>, NoName, "", TRUE, "int", "", TRUE, "") >>,
     ReqCfg |-> <<
        Fld("DB", NoTag, NoName, "", TRUE, "struct", "Inner", TRUE, "") >>,
     Inner |-> <<
        Fld("Host", NoTag, NoName, "9", FALSE, "int", "", TRUE, "") >>]

\* The type name of a target that is not a structure.
Scalar == "Scalar"

IsStructKind(k) == k \in {"struct", "ptrstruct"}
IsPtrKind(k) == k \in {"ptrint", "ptrstruct"}
IsSliceKind(k) == k \in {"slice", "sliceptr"}

NumField(tn) == Len(StructTypes[tn])
Field(tn, i) == StructTypes[tn][i]


----------------------------------------------------------------------------
(* Targets *)

RECURSIVE LeafPaths(_, _), PtrPaths(_, _), SlicePaths(_, _)

\* The paths of the integer values (and of the pointers to integers) that a
\* structure of type tn at path base holds.
LeafPaths(tn, base) ==
    UNION { LET fd == Field(tn, i)
                p == base \o <<i>>
            IN  CASE fd.kind \in {"int", "ptrint"} -> {p}
                  [] IsStructKind(fd.kind) -> LeafPaths(fd.elem, p)
                  [] OTHER ->
                       UNION {LeafPaths(fd.elem, p \o <<j>>) : j \in 0..(MaxLen - 1)}
          : i \in 1..NumField(tn) }

\* The paths of the pointer fields below base.
PtrPaths(tn, base) ==
    UNION { LET fd == Field(tn, i)
                p == base \o <<i>>
            IN  CASE fd.kind = "int" -> {}
                  [] fd.kind = "ptrint" -> {p}
                  [] fd.kind = "struct" -> PtrPaths(fd.elem, p)
                  [] fd.kind = "ptrstruct" -> {p} \cup PtrPaths(fd.elem, p)
                  [] OTHER ->
                       UNION {PtrPaths(fd.elem, p \o <<j>>) : j \in 0..(MaxLen - 1)}
          : i \in 1..NumField(tn) }

\* The paths of the sequence fields below base.
SlicePaths(tn, base) ==
    UNION { LET fd == Field(tn, i)
                p == base \o <<i>>
            IN  CASE fd.kind \in {"int", "ptrint"} -> {}
                  [] IsStructKind(fd.kind) -> SlicePaths(fd.elem, p)
                  [] OTHER ->
                       {p} \cup UNION {SlicePaths(fd.elem, p \o <<j>>) : j \in 0..(MaxLen - 1)}
          : i \in 1..NumField(tn) }

Leaves(tn) == IF tn = Scalar THEN {} ELSE LeafPaths(tn, << >>)
Pointers(tn) == IF tn = Scalar THEN {} ELSE PtrPaths(tn, << >>)
Slices(tn) == IF tn = Scalar THEN {} ELSE SlicePaths(tn, << >>)

IsPrefix(p, q) == Len(p) <= Len(q) /\ SubSeq(q, 1, Len(p)) = p

\* A value of type tn: val holds the integer at every leaf path, nilp the
\* pointer fields that are nil and slen the length of every sequence.  The
\* values below a nil pointer are those of the instance reflect.New made
\* for it during the walk; the target does not reference that instance.
ZeroValue(tn) ==
    [val |-> [p \in Leaves(tn) |-> 0],
     nilp |-> Pointers(tn),
     slen |-> [p \in Slices(tn) |-> 0]]

\* The target with the pointer fields in alloc pointing at zero values.
Allocated(tn, alloc) == [ZeroValue(tn) EXCEPT !.nilp = Pointers(tn) \ alloc]

\* Every sequence index on the path is within its sequence's length.
InRange(tgt, p) ==
    \A q \in DOMAIN tgt.slen :
        (IsPrefix(q, p) /\ Len(p) > Len(q)) => p[Len(q) + 1] < tgt.slen[q]

\* No pointer on the path (the last one included) is nil in the target.
Attached(tgt, p) == \A q \in tgt.nilp : ~IsPrefix(q, p)

\* A path is reachable from the target when no pointer on it is nil and no
\* index on it is beyond its sequence's length.
Reachable(tgt, p) == InRange(tgt, p) /\ Attached(tgt, p)

\* What the caller reads in the target at a leaf path: <<v>> for the integer
\* v, << >> when a pointer on the path is nil (or the element is absent).
TargetValue(tgt, p) == IF Reachable(tgt, p) THEN <<tgt.val[p]>> ELSE << >>

RECURSIVE ZeroStruct(_, _, _)

\* reflect.DeepEqual(v, reflect.Zero(type)) for the structure of type tn at
\* path base: every integer 0, every pointer nil, every sequence nil.
ZeroStruct(tn, base, tgt) ==
    \A i \in 1..NumField(tn) :
        LET fd == Field(tn, i)
            p == base \o <<i>>
        IN  CASE fd.kind = "int" -> tgt.val[p] = 0
              [] IsPtrKind(fd.kind) -> p \in tgt.nilp
              [] fd.kind = "struct" -> ZeroStruct(fd.elem, p, tgt)
              [] OTHER -> tgt.slen[p] = 0


----------------------------------------------------------------------------
(* Environment-variable names *)

RECURSIVE Flatten(_)

\* The concatenation of a sequence of sequences.
Flatten(ss) == IF Len(ss) = 0 THEN << >> ELSE Head(ss) \o Flatten(Tail(ss))

\* The serialization name: the first comma-separated part of the json tag,
\* unless the tag or that part is empty or "-".
getJsonTag(fd) ==
    IF fd.json = NoTag \/ fd.json = << <<"-">> >>
    THEN NoName
    ELSE IF fd.json[1] = NoName \/ fd.json[1] = <<"-">> THEN NoName ELSE fd.json[1]

\* getPrefixForStruct without the serialization-name prefixes.
getPrefixForStruct_NameOnly(prefixes, fd) ==
    IF fd.anonymous = "tagged"
    THEN prefixes
    ELSE IF Len(prefixes) = 0
         THEN <<(<<fd.Name>>)>>
         ELSE [k \in DOMAIN prefixes |-> prefixes[k] \o <<fd.Name>>]

\* getPrefixForStruct without the passthrough of an embedded structure
\* tagged anonymous.
getPrefixForStruct_NoPassthrough(prefixes, fd) ==
    LET jsonName == getJsonTag(fd)
        byName == [k \in DOMAIN prefixes |-> prefixes[k] \o <<fd.Name>>]
        byJson == IF jsonName # NoName
                  THEN [k \in DOMAIN prefixes |-> prefixes[k] \o jsonName]
                  ELSE << >>
        result == byName \o byJson
    IN  IF Len(result) = 0
        THEN <<(<<fd.Name>>)>> \o (IF jsonName # NoName THEN <<jsonName>> ELSE << >>)
        ELSE result

\* The prefixes handed to the fields of a structure field.
getPrefixForStruct(prefixes, fd) ==
    IF fd.anonymous = "tagged"
    THEN prefixes
    ELSE LET jsonName == getJsonTag(fd)
             byName == [k \in DOMAIN prefixes |-> prefixes[k] \o <<fd.Name>>]
             byJson == IF jsonName # NoName
                       THEN [k \in DOMAIN prefixes |-> prefixes[k] \o jsonName]
                       ELSE << >>
             result == byName \o byJson
         IN  IF Len(result) = 0
             THEN <<(<<fd.Name>>)>> \o (IF jsonName # NoName THEN <<jsonName>> ELSE << >>)
             ELSE result

\* getEnvironmentVariables with the prefixed names of an env tag ahead of the
\* bare one.
getEnvironmentVariables_PrefixedFirst(fd, prefixes, gp) ==
    IF fd.env # NoName
    THEN (IF gp # "" THEN << <<gp>> \o fd.env, <<UpperOf(gp)>> \o fd.env >> ELSE << >>)
         \o <<fd.env>>
    ELSE LET perPrefix(prefix) ==
                 <<prefix \o <<fd.Name>>, ToUpper(prefix \o <<fd.Name>>)>> \o
                 (IF Len(getJsonTag(fd)) > 0
                  THEN <<prefix \o getJsonTag(fd), ToUpper(prefix \o getJsonTag(fd))>>
                  ELSE << >>)
             result == Flatten([k \in DOMAIN prefixes |-> perPrefix(prefixes[k])])
         IN  IF Len(result) = 0
             THEN << <<fd.Name>>, ToUpper(<<fd.Name>>) >> \o
                  (IF Len(getJsonTag(fd)) > 0
                   THEN <<getJsonTag(fd), ToUpper(getJsonTag(fd))>> ELSE << >>)
             ELSE result

\* The candidates with the serialization name before the field name.
getEnvironmentVariables_JsonFirst(fd, prefixes, gp) ==
    LET jsonTagValue == getJsonTag(fd)
    IN  IF fd.env # NoName
        THEN <<fd.env>> \o
             (IF gp # "" THEN << <<gp>> \o fd.env, <<UpperOf(gp)>> \o fd.env >> ELSE << >>)
        ELSE LET perPrefix(prefix) ==
                     LET name == prefix \o <<fd.Name>>
                         jname == prefix \o jsonTagValue
                     IN  (IF Len(jsonTagValue) > 0 THEN <<jname, ToUpper(jname)>> ELSE << >>)
                         \o <<name, ToUpper(name)>>
                 result == Flatten([k \in DOMAIN prefixes |-> perPrefix(prefixes[k])])
             IN  IF Len(result) = 0
                 THEN (IF Len(jsonTagValue) > 0
                       THEN <<jsonTagValue, ToUpper(jsonTagValue)>> ELSE << >>)
                      \o << <<fd.Name>>, ToUpper(<<fd.Name>>) >>
                 ELSE result

\* The candidates with the name-derived ones after those of the env tag.
getEnvironmentVariables_TagThenNames(fd, prefixes, gp) ==
    LET jsonTagValue == getJsonTag(fd)
        perPrefix(prefix) ==
            LET name == prefix \o <<fd.Name>>
                jname == prefix \o jsonTagValue
            IN  <<name, ToUpper(name)>> \o
                (IF Len(jsonTagValue) > 0 THEN <<jname, ToUpper(jname)>> ELSE << >>)
        result == Flatten([k \in DOMAIN prefixes |-> perPrefix(prefixes[k])])
        derived == IF Len(result) = 0
                   THEN << <<fd.Name>>, ToUpper(<<fd.Name>>) >> \o
                        (IF Len(jsonTagValue) > 0
                         THEN <<jsonTagValue, ToUpper(jsonTagValue)>> ELSE << >>)
                   ELSE result
    IN  IF fd.env # NoName
        THEN <<fd.env>> \o
             (IF gp # "" THEN << <<gp>> \o fd.env, <<UpperOf(gp)>> \o fd.env >> ELSE << >>)
             \o derived
        ELSE derived

\* The candidate environment-variable names of a field, in lookup order.
getEnvironmentVariables(fd, prefixes, gp) ==
    LET jsonTagValue == getJsonTag(fd)
    IN  IF fd.env # NoName
        THEN <<fd.env>> \o
             (IF gp # "" THEN << <<gp>> \o fd.env, <<UpperOf(gp)>> \o fd.env >> ELSE << >>)
        ELSE LET perPrefix(prefix) ==
                     LET name == prefix \o <<fd.Name>>
                         jname == prefix \o jsonTagValue
                     IN  <<name, ToUpper(name)>> \o
                         (IF Len(jsonTagValue) > 0 THEN <<jname, ToUpper(jname)>> ELSE << >>)
                 result == Flatten([k \in DOMAIN prefixes |-> perPrefix(prefixes[k])])
             IN  IF Len(result) = 0
                 THEN << <<fd.Name>>, ToUpper(<<fd.Name>>) >> \o
                      (IF Len(jsonTagValue) > 0
                       THEN <<jsonTagValue, ToUpper(jsonTagValue)>> ELSE << >>)
                 ELSE result

\* os.Getenv: the value of a set variable, "" for one that is not set.
Getenv(e, n) == IF n \in DOMAIN e THEN e[n] ELSE ""

\* The index of the first candidate whose variable is set and non-empty
\* (0 when there is none): the loop of processTags over envNames.
FirstSet(e, envNames) ==
    LET hits == {k \in DOMAIN envNames : Getenv(e, envNames[k]) # ""}
    IN  IF hits = {} THEN 0 ELSE CHOOSE k \in hits : \A h \in hits : k <= h

----------------------------------------------------------------------------
(* The session *)

CONFIGOR_ENV == <<"CONFIGOR", "ENV">>
CONFIGOR_ENV_PREFIX == <<"CONFIGOR", "ENV", "PREFIX">>
CONFIGOR_DEBUG_MODE == <<"CONFIGOR", "DEBUG", "MODE">>
CONFIGOR_VERBOSE_MODE == <<"CONFIGOR", "VERBOSE", "MODE">>

\* getEnvPrefix with the session's ENVPrefix ahead of CONFIGOR_ENV_PREFIX.
getEnvPrefix_SessionFirst(cfg, e) ==
    LET prefix == Getenv(e, CONFIGOR_ENV_PREFIX)
    IN  CASE cfg.ENVPrefix = "-" -> ""
          [] cfg.ENVPrefix = "" ->
                IF prefix = "" THEN "Configor" ELSE IF prefix = "-" THEN "" ELSE prefix
          [] OTHER -> cfg.ENVPrefix

\* Config.getEnvPrefix
getEnvPrefix(cfg, e) ==
    LET prefix == Getenv(e, CONFIGOR_ENV_PREFIX)
    IN  IF prefix # ""
        THEN IF prefix = "-" THEN "" ELSE prefix
        ELSE CASE cfg.ENVPrefix = "-" -> ""
               [] cfg.ENVPrefix = "" -> "Configor"
               [] OTHER -> cfg.ENVPrefix

\* GetEnvironment with CONFIGOR_ENV ahead of the session's Environment.
GetEnvironment_ProcessFirst(cfg, e, isTest) ==
    IF Getenv(e, CONFIGOR_ENV) # "" THEN Getenv(e, CONFIGOR_ENV)
    ELSE IF cfg.Environment # "" THEN cfg.Environment
    ELSE IF isTest THEN "test" ELSE "development"

\* Configor.GetEnvironment; isTest is testRegexp.MatchString(os.Args[0]).
GetEnvironment(cfg, e, isTest) ==
    IF cfg.Environment = ""
    THEN IF Getenv(e, CONFIGOR_ENV) # "" THEN Getenv(e, CONFIGOR_ENV)
         ELSE IF isTest THEN "test" ELSE "development"
    ELSE cfg.Environment

----------------------------------------------------------------------------
(* The file resolver *)

\* os.Stat succeeded and the mode is regular.
IsRegularFile(files, f) == f \in DOMAIN files /\ files[f].regular

\* The name with env inserted before the extension, or appended when the
\* name has no extension.
EnvFileName(file, envName) ==
    IF Len(file) = 1
    THEN file \o <<envName>>
    ELSE SubSeq(file, 1, Len(file) - 1) \o <<envName>> \o <<file[Len(file)]>>

\* getConfigurationFileWithENVPrefix: the sibling and whether it was found.
getConfigurationFileWithENVPrefix(files, file, envName) ==
    LET envFile == EnvFileName(file, envName)
    IN  IF IsRegularFile(files, envFile)
        THEN [file |-> envFile, found |-> TRUE]
        ELSE [file |-> << >>, found |-> FALSE]

\* The loop body with the environment sibling appended ahead of the base
\* file.
FilesOfCandidate_EnvFirst(files, file, environment) ==
    LET base == IF IsRegularFile(files, file) THEN <<file>> ELSE << >>
        withEnv == getConfigurationFileWithENVPrefix(files, file, environment)
        example == getConfigurationFileWithENVPrefix(files, file, "example")
        foundFile == IsRegularFile(files, file) \/ withEnv.found
    IN  (IF withEnv.found THEN <<withEnv.file>> ELSE << >>) \o
        base \o
        (IF ~foundFile /\ example.found THEN <<example.file>> ELSE << >>)

\* The loop body with the example sibling appended whenever it is found.
FilesOfCandidate_ExampleAlways(files, file, environment) ==
    LET base == IF IsRegularFile(files, file) THEN <<file>> ELSE << >>
        withEnv == getConfigurationFileWithENVPrefix(files, file, environment)
        example == getConfigurationFileWithENVPrefix(files, file, "example")
    IN  base \o
        (IF withEnv.found THEN <<withEnv.file>> ELSE << >>) \o
        (IF example.found THEN <<example.file>> ELSE << >>)

\* One iteration of the loop of getConfigurationFiles: the files that one
\* candidate appends to results.
FilesOfCandidate(files, file, environment) ==
    LET base == IF IsRegularFile(files, file) THEN <<file>> ELSE << >>
        withEnv == getConfigurationFileWithENVPrefix(files, file, environment)
        example == getConfigurationFileWithENVPrefix(files, file, "example")
        foundFile == IsRegularFile(files, file) \/ withEnv.found
    IN  base \o
        (IF withEnv.found THEN <<withEnv.file>> ELSE << >>) \o
        (IF ~foundFile /\ example.found THEN <<example.file>> ELSE << >>)

\* getConfigurationFiles with the candidates visited from the first to the
\* last.
getConfigurationFiles_Forward(files, cands, environment) ==
    Flatten([k \in DOMAIN cands |-> FilesOfCandidate(files, cands[k], environment)])

\* getConfigurationFiles: the candidates are visited from the last to the
\* first.
getConfigurationFiles(files, cands, environment) ==
    Flatten([k \in DOMAIN cands |->
                FilesOfCandidate(files, cands[Len(cands) + 1 - k], environment)])


----------------------------------------------------------------------------
(* Decoding *)

\* An error value: its kind and, for a missing required field, the name in
\* the message, for unmatched TOML keys, the keys.
NoError == [kind |-> "nil", detail |-> << >>]
Err(kind, detail) == [kind |-> kind, detail |-> detail]

\* What a decoder writes into the target: the values and sequence lengths
\* the content gives; a pointer the content reaches is allocated.
Decoded(tgt, content) ==
    LET touched == DOMAIN content.vals \cup DOMAIN content.lens
    IN  [val |-> [p \in DOMAIN tgt.val |->
                    IF p \in DOMAIN content.vals THEN content.vals[p] ELSE tgt.val[p]],
         nilp |-> {q \in tgt.nilp : \A p \in touched : ~IsPrefix(q, p)},
         slen |-> [p \in DOMAIN tgt.slen |->
                    IF p \in DOMAIN content.lens THEN content.lens[p] ELSE tgt.slen[p]]]

\* unmarshalToml without the test of the undecoded keys.
unmarshalToml_Lenient(content, tgt, errorOnUnmatchedKeys) ==
    IF content.syntax # "toml"
    THEN [tgt |-> tgt, err |-> Err("toml", << >>)]
    ELSE [tgt |-> Decoded(tgt, content), err |-> NoError]

\* unmarshalToml: toml.Decode, then the undecoded keys.
unmarshalToml(content, tgt, errorOnUnmatchedKeys) ==
    IF content.syntax # "toml"
    THEN [tgt |-> tgt, err |-> Err("toml", << >>)]
    ELSE IF Len(content.extra) > 0 /\ errorOnUnmatchedKeys
         THEN [tgt |-> Decoded(tgt, content),
               err |-> Err("UnmatchedTomlKeysError", content.extra)]
         ELSE [tgt |-> Decoded(tgt, content), err |-> NoError]

\* unmarshalJSON: a JSON decoder that rejects unknown fields in strict mode.
unmarshalJSON(content, tgt, errorOnUnmatchedKeys) ==
    IF content.syntax # "json"
    THEN [tgt |-> tgt, err |-> Err("json", << >>)]
    ELSE IF Len(content.extra) > 0 /\ errorOnUnmatchedKeys
         THEN [tgt |-> Decoded(tgt, content), err |-> Err("json: unknown field", << >>)]
         ELSE [tgt |-> Decoded(tgt, content), err |-> NoError]

\* yaml.Unmarshal and yaml.UnmarshalStrict of a file: JSON text is YAML; a
\* text that parses as one YAML scalar does not fit a structure (TypeError).
unmarshalYaml(content, tgt, errorOnUnmatchedKeys) ==
    CASE content.syntax \in {"yaml", "json"} ->
            IF Len(content.extra) > 0 /\ errorOnUnmatchedKeys
            THEN [tgt |-> Decoded(tgt, content), err |-> Err("yaml.TypeError", << >>)]
            ELSE [tgt |-> Decoded(tgt, content), err |-> NoError]
      [] content.syntax = "text" -> [tgt |-> tgt, err |-> Err("yaml.TypeError", << >>)]
      [] OTHER -> [tgt |-> tgt, err |-> Err("yaml", << >>)]

\* strings.HasSuffix(file, "." + ext)
HasSuffix(file, ext) == Len(file) > 1 /\ file[Len(file)] = ext

\* The result of a decoder with the decoders that were called, in order.
Tried(r, formats) == [tgt |-> r.tgt, err |-> r.err, tried |-> formats]

\* processFile that returns every YAML error as it is.
processFile_YamlErrorAsIs(tgt, file, content, errorOnUnmatchedKeys) ==
    CASE HasSuffix(file, "yaml") \/ HasSuffix(file, "yml") ->
            Tried(unmarshalYaml(content, tgt, errorOnUnmatchedKeys), <<"yaml">>)
      [] HasSuffix(file, "toml") ->
            Tried(unmarshalToml(content, tgt, errorOnUnmatchedKeys), <<"toml">>)
      [] HasSuffix(file, "json") ->
            Tried(unmarshalJSON(content, tgt, errorOnUnmatchedKeys), <<"json">>)
      [] OTHER ->
            LET t == unmarshalToml(content, tgt, errorOnUnmatchedKeys)
                j == unmarshalJSON(content, t.tgt, errorOnUnmatchedKeys)
                y == unmarshalYaml(content, j.tgt, errorOnUnmatchedKeys)
            IN  IF t.err = NoError \/ t.err.kind = "UnmatchedTomlKeysError"
                THEN Tried(t, <<"toml">>)
                ELSE IF j.err = NoError \/ j.err.kind = "json: unknown field"
                THEN Tried(j, <<"toml", "json">>)
                ELSE Tried(y, <<"toml", "json", "yaml">>)

\* processFile that goes on to the next decoder after any error.
processFile_TryAll(tgt, file, content, errorOnUnmatchedKeys) ==
    CASE HasSuffix(file, "yaml") \/ HasSuffix(file, "yml") ->
            Tried(unmarshalYaml(content, tgt, errorOnUnmatchedKeys), <<"yaml">>)
      [] HasSuffix(file, "toml") ->
            Tried(unmarshalToml(content, tgt, errorOnUnmatchedKeys), <<"toml">>)
      [] HasSuffix(file, "json") ->
            Tried(unmarshalJSON(content, tgt, errorOnUnmatchedKeys), <<"json">>)
      [] OTHER ->
            LET t == unmarshalToml(content, tgt, errorOnUnmatchedKeys)
                j == unmarshalJSON(content, t.tgt, errorOnUnmatchedKeys)
                y == unmarshalYaml(content, j.tgt, errorOnUnmatchedKeys)
            IN  IF t.err = NoError
                THEN Tried(t, <<"toml">>)
                ELSE IF j.err = NoError
                THEN Tried(j, <<"toml", "json">>)
                ELSE IF y.err = NoError \/ y.err.kind = "yaml.TypeError"
                THEN Tried(y, <<"toml", "json", "yaml">>)
                ELSE [tgt |-> y.tgt, err |-> Err("failed to decode config", << >>),
                      tried |-> <<"toml", "json", "yaml">>]

\* processFile: dispatch on the extension, else TOML, JSON, YAML in turn.
processFile(tgt, file, content, errorOnUnmatchedKeys) ==
    CASE HasSuffix(file, "yaml") \/ HasSuffix(file, "yml") ->
            Tried(unmarshalYaml(content, tgt, errorOnUnmatchedKeys), <<"yaml">>)
      [] HasSuffix(file, "toml") ->
            Tried(unmarshalToml(content, tgt, errorOnUnmatchedKeys), <<"toml">>)
      [] HasSuffix(file, "json") ->
            Tried(unmarshalJSON(content, tgt, errorOnUnmatchedKeys), <<"json">>)
      [] OTHER ->
            LET t == unmarshalToml(content, tgt, errorOnUnmatchedKeys)
                j == unmarshalJSON(content, t.tgt, errorOnUnmatchedKeys)
                y == unmarshalYaml(content, j.tgt, errorOnUnmatchedKeys)
            IN  IF t.err = NoError \/ t.err.kind = "UnmatchedTomlKeysError"
                THEN Tried(t, <<"toml">>)
                ELSE IF j.err = NoError \/ j.err.kind = "json: unknown field"
                THEN Tried(j, <<"toml", "json">>)
                ELSE IF y.err = NoError \/ y.err.kind = "yaml.TypeError"
                THEN Tried(y, <<"toml", "json", "yaml">>)
                ELSE [tgt |-> y.tgt, err |-> Err("failed to decode config", << >>),
                      tried |-> <<"toml", "json", "yaml">>]


----------------------------------------------------------------------------
(* The field walk: one field of processTags *)

\* yaml.Unmarshal([]byte(literal), field.Addr().Interface()) for a scalar
\* literal: an integer field (or the integer behind a pointer) takes the
\* parsed value; a structure or a sequence does not accept a scalar.
UnmarshalLiteral(tgt, fd, p, literal) ==
    IF fd.kind \in {"int", "ptrint"} /\ ParseInt(literal) # << >>
    THEN [tgt |-> [tgt EXCEPT !.val[p] = ParseInt(literal)[1]], err |-> NoError]
    ELSE [tgt |-> tgt, err |-> Err("yaml.TypeError", << >>)]

\* isBlank: reflect.DeepEqual(field.Interface(), zero).  For a pointer field
\* that was nil, field is the instance reflect.New made; a pointer field
\* that is not nil differs from the nil pointer.
IsBlank(tgt, fd, p) ==
    CASE fd.kind = "int" -> tgt.val[p] = 0
      [] fd.kind = "ptrint" -> p \in tgt.nilp /\ tgt.val[p] = 0
      [] fd.kind = "ptrstruct" -> p \in tgt.nilp /\ ZeroStruct(fd.elem, p, tgt)
      [] fd.kind = "struct" -> ZeroStruct(fd.elem, p, tgt)
      [] OTHER -> tgt.slen[p] = 0

\* field.CanAddr() && field.CanInterface(): an unexported field is skipped,
\* unless it was nil and stands replaced by the instance reflect.New made.
Settable(tgt, fd, p) == fd.exported \/ (IsPtrKind(fd.kind) /\ p \in tgt.nilp)

\* The name in the message of the missing-required-field error.
RequiredName(fd, envNames) ==
    IF Len(envNames) > 0 THEN ToUpper(envNames[Len(envNames)]) ELSE <<fd.Name>>

\* The default/required step without the default tag.
ApplyDefault_NoDefault(tgt, fd, p, envNames) ==
    IF fd.required
    THEN [tgt |-> tgt, err |-> Err("required", RequiredName(fd, envNames))]
    ELSE [tgt |-> tgt, err |-> NoError]

\* The default/required step on a field that is blank.
ApplyDefault(tgt, fd, p, envNames) ==
    IF fd.default # ""
    THEN UnmarshalLiteral(tgt, fd, p, fd.default)
    ELSE IF fd.required
         THEN [tgt |-> tgt, err |-> Err("required", RequiredName(fd, envNames))]
         ELSE [tgt |-> tgt, err |-> NoError]

\* processField with the environment consulted only for a blank field.
processField_FileFirst(tgt, fd, p, prefixes, gp, e) ==
    LET envNames == getEnvironmentVariables(fd, prefixes, gp)
        hit == IF IsBlank(tgt, fd, p) THEN FirstSet(e, envNames) ELSE 0
        fromEnv == IF hit = 0
                   THEN [tgt |-> tgt, err |-> NoError]
                   ELSE UnmarshalLiteral(tgt, fd, p, Getenv(e, envNames[hit]))
    IN  IF ~Settable(tgt, fd, p) THEN [tgt |-> tgt, err |-> NoError]
        ELSE IF fromEnv.err # NoError THEN fromEnv
        ELSE IF IsBlank(fromEnv.tgt, fd, p)
             THEN ApplyDefault(fromEnv.tgt, fd, p, envNames)
             ELSE fromEnv

\* The body of the loop of processTags for one field, up to the recursion:
\* the environment lookup, then the default/required step.
processField(tgt, fd, p, prefixes, gp, e) ==
    LET envNames == getEnvironmentVariables(fd, prefixes, gp)
        hit == FirstSet(e, envNames)
        fromEnv == IF hit = 0
                   THEN [tgt |-> tgt, err |-> NoError]
                   ELSE UnmarshalLiteral(tgt, fd, p, Getenv(e, envNames[hit]))
    IN  IF ~Settable(tgt, fd, p) THEN [tgt |-> tgt, err |-> NoError]
        ELSE IF fromEnv.err # NoError THEN fromEnv
        ELSE IF IsBlank(fromEnv.tgt, fd, p)
             THEN ApplyDefault(fromEnv.tgt, fd, p, envNames)
             ELSE fromEnv

\* The prefixes Load hands to processTags: the global prefix when there is
\* one.
RootPrefixes(gp) == IF gp # "" THEN << <<gp>> >> ELSE << >>

\* A frame of the recursion of processTags: the structure type, the path of
\* the structure, the prefixes, the index i of the loop over the fields and,
\* inside the loop over the elements of a sequence field, the index j.
Frame(tn, base, prefixes) ==
    [tn |-> tn, base |-> base, prefixes |-> prefixes, i |-> 1, phase |-> "field", j |-> 0]

----------------------------------------------------------------------------
(* State *)

VARIABLES
    env,          \* the process environment: set variable name -> value
    args0Test,    \* testRegexp.MatchString(os.Args[0])
    fs,           \* the file system: existing file name -> file
    config,       \* the Config the Configor points to
    globalPrefix, \* Configor.globalPrefix
    constructed,  \* New has returned
    ld            \* the Load calls: call id -> state of the call

vars == <<env, args0Test, fs, config, globalPrefix, constructed, ld>>

Calls == {"c1", "c2"}

\* A Load call that was not made.
NoCall ==
    [pc |-> "none", typ |-> Scalar, cands |-> << >>, initial |-> ZeroValue(Scalar),
     target |-> ZeroValue(Scalar), environment |-> "", files |-> << >>, k |-> 1,
     afterFiles |-> ZeroValue(Scalar), stack |-> << >>, tried |-> << >>,
     err |-> NoError]

\* A Load call about to be made: Load(&target, cands...) on a target of type
\* typ.  initial and afterFiles record the target as passed and as it was
\* when the last file had been decoded, environment what GetEnvironment
\* returned to the file resolver, tried the decoders called on each file.
NewCall(typ, tgt, cands) ==
    [pc |-> "idle", typ |-> typ, cands |-> cands, initial |-> tgt,
     target |-> tgt, environment |-> "", files |-> << >>, k |-> 1,
     afterFiles |-> tgt, stack |-> << >>, tried |-> << >>, err |-> NoError]

\* return err
Return(call, tgt, err) == [call EXCEPT !.pc = "done", !.target = tgt, !.err = err]

----------------------------------------------------------------------------
(* Actions *)

\* New(config)
New ==
    /\ ~constructed
    /\ config' = [config EXCEPT
                    !.Debug = @ \/ Getenv(env, CONFIGOR_DEBUG_MODE) # "",
                    !.Verbose = @ \/ Getenv(env, CONFIGOR_VERBOSE_MODE) # ""]
    /\ globalPrefix' = getEnvPrefix(config, env)
    /\ constructed' = TRUE
    /\ UNCHANGED <<env, args0Test, fs, ld>>

\* Load: c.getConfigurationFiles(files...)
getConfigurationFilesStep(call) ==
    LET environment == GetEnvironment(config, env, args0Test)
    IN  [call EXCEPT !.pc = "decode", !.k = 1, !.environment = environment,
                     !.files = getConfigurationFiles(fs, call.cands, environment)]

\* LoadResolve that keeps the resolved environment in the Config.
LoadResolve_Caching(c) ==
    /\ constructed
    /\ ld[c].pc = "idle"
    /\ ld' = [ld EXCEPT ![c] = getConfigurationFilesStep(ld[c])]
    /\ config' = [config EXCEPT !.Environment = ld'[c].environment]
    /\ UNCHANGED <<env, args0Test, fs, globalPrefix, constructed>>

LoadResolve(c) ==
    /\ constructed
    /\ ld[c].pc = "idle"
    /\ ld' = [ld EXCEPT ![c] = getConfigurationFilesStep(ld[c])]
    /\ UNCHANGED <<env, args0Test, fs, config, globalPrefix, constructed>>

\* The iteration that goes on to the next file after a decoding error.
processFileStep_Continue(call) ==
    LET file == call.files[call.k]
        r == processFile(call.target, file, fs[file], config.ErrorOnUnmatchedKeys)
        decoded == [call EXCEPT !.tried = Append(@, r.tried)]
    IN  IF r.err # NoError /\ call.k = Len(call.files)
        THEN Return(decoded, r.tgt, r.err)
        ELSE [decoded EXCEPT !.target = r.tgt, !.k = @ + 1]

\* Load: one iteration of the loop over the resolved files.
processFileStep(call) ==
    LET file == call.files[call.k]
        r == processFile(call.target, file, fs[file], config.ErrorOnUnmatchedKeys)
        decoded == [call EXCEPT !.tried = Append(@, r.tried)]
    IN  IF r.err # NoError
        THEN Return(decoded, r.tgt, r.err)
        ELSE [decoded EXCEPT !.target = r.tgt, !.k = @ + 1]

LoadDecode(c) ==
    /\ ld[c].pc = "decode"
    /\ ld[c].k <= Len(ld[c].files)
    /\ ld' = [ld EXCEPT ![c] = processFileStep(ld[c])]
    /\ UNCHANGED <<env, args0Test, fs, config, globalPrefix, constructed>>

\* Load: the call of processTags on the target, with the global prefix when
\* there is one.
processTagsStep(call) ==
    LET prefixes == RootPrefixes(globalPrefix)
    IN  IF call.typ = Scalar
        THEN Return([call EXCEPT !.afterFiles = call.target], call.target,
                    Err("invalid config, should be struct", << >>))
        ELSE [call EXCEPT !.pc = "walk", !.afterFiles = call.target,
                          !.stack = <<Frame(call.typ, << >>, prefixes)>>]

LoadWalk(c) ==
    /\ ld[c].pc = "decode"
    /\ ld[c].k > Len(ld[c].files)
    /\ ld' = [ld EXCEPT ![c] = processTagsStep(ld[c])]
    /\ UNCHANGED <<env, args0Test, fs, config, globalPrefix, constructed>>

\* The field step that recurses into a blank required structure instead of
\* returning the error.
FieldStep_RecurseFirst(call) ==
    LET fr == call.stack[Len(call.stack)]
        fd == Field(fr.tn, fr.i)
        p == fr.base \o <<fr.i>>
        r == processField(call.target, fd, p, fr.prefixes, globalPrefix, env)
        rest == SubSeq(call.stack, 1, Len(call.stack) - 1)
    IN  IF r.err # NoError /\ ~(r.err.kind = "required" /\ IsStructKind(fd.kind))
        THEN Return(call, r.tgt, r.err)
        ELSE IF ~Settable(call.target, fd, p)
        THEN [call EXCEPT !.stack = rest \o <<[fr EXCEPT !.i = @ + 1]>>]
        ELSE IF IsStructKind(fd.kind)
        THEN [call EXCEPT !.target = r.tgt,
                !.stack = rest \o <<[fr EXCEPT !.i = @ + 1],
                    Frame(fd.elem, p, getPrefixForStruct(fr.prefixes, fd))>>]
        ELSE IF IsSliceKind(fd.kind)
        THEN [call EXCEPT !.target = r.tgt,
                !.stack = rest \o <<[fr EXCEPT !.phase = "elems", !.j = 0]>>]
        ELSE [call EXCEPT !.target = r.tgt,
                !.stack = rest \o <<[fr EXCEPT !.i = @ + 1]>>]

\* processTags: one field of the structure on top of the recursion.
FieldStep(call) ==
    LET fr == call.stack[Len(call.stack)]
        fd == Field(fr.tn, fr.i)
        p == fr.base \o <<fr.i>>
        r == processField(call.target, fd, p, fr.prefixes, globalPrefix, env)
        rest == SubSeq(call.stack, 1, Len(call.stack) - 1)
    IN  IF r.err # NoError THEN Return(call, r.tgt, r.err)
        ELSE IF ~Settable(call.target, fd, p)
        THEN [call EXCEPT !.stack = rest \o <<[fr EXCEPT !.i = @ + 1]>>]
        ELSE IF IsStructKind(fd.kind)
        THEN [call EXCEPT !.target = r.tgt,
                !.stack = rest \o <<[fr EXCEPT !.i = @ + 1],
                    Frame(fd.elem, p, getPrefixForStruct(fr.prefixes, fd))>>]
        ELSE IF IsSliceKind(fd.kind)
        THEN [call EXCEPT !.target = r.tgt,
                !.stack = rest \o <<[fr EXCEPT !.phase = "elems", !.j = 0]>>]
        ELSE [call EXCEPT !.target = r.tgt,
                !.stack = rest \o <<[fr EXCEPT !.i = @ + 1]>>]

WalkField(c) ==
    /\ ld[c].pc = "walk"
    /\ LET fr == ld[c].stack[Len(ld[c].stack)]
       IN  /\ fr.phase = "field"
           /\ fr.i <= NumField(fr.tn)
    /\ ld' = [ld EXCEPT ![c] = FieldStep(ld[c])]
    /\ UNCHANGED <<env, args0Test, fs, config, globalPrefix, constructed>>

\* processTags: one element of a sequence field.  The element's address is
\* handed to processTags, which rejects a reference to a pointer.
ElemStep(call) ==
    LET fr == call.stack[Len(call.stack)]
        fd == Field(fr.tn, fr.i)
        p == fr.base \o <<fr.i>>
        rest == SubSeq(call.stack, 1, Len(call.stack) - 1)
        prefixes == getPrefixForStruct(fr.prefixes, fd) \o << <<ToString(fr.j)>> >>
    IN  IF fr.j >= call.target.slen[p]
        THEN [call EXCEPT !.stack =
                rest \o <<[fr EXCEPT !.phase = "field", !.i = @ + 1]>>]
        ELSE IF fd.kind = "sliceptr"
        THEN Return(call, call.target, Err("invalid config, should be struct", << >>))
        ELSE [call EXCEPT !.stack =
                rest \o <<[fr EXCEPT !.j = @ + 1],
                          Frame(fd.elem, p \o <<fr.j>>, prefixes)>>]

WalkElem(c) ==
    /\ ld[c].pc = "walk"
    /\ ld[c].stack[Len(ld[c].stack)].phase = "elems"
    /\ ld' = [ld EXCEPT ![c] = ElemStep(ld[c])]
    /\ UNCHANGED <<env, args0Test, fs, config, globalPrefix, constructed>>

\* processTags: return nil at the end of the loop over the fields.
ReturnStep(call) ==
    LET rest == SubSeq(call.stack, 1, Len(call.stack) - 1)
    IN  IF rest = << >>
        THEN Return([call EXCEPT !.stack = rest], call.target, NoError)
        ELSE [call EXCEPT !.stack = rest]

WalkReturn(c) ==
    /\ ld[c].pc = "walk"
    /\ LET fr == ld[c].stack[Len(ld[c].stack)]
       IN  /\ fr.phase = "field"
           /\ fr.i > NumField(fr.tn)
    /\ ld' = [ld EXCEPT ![c] = ReturnStep(ld[c])]
    /\ UNCHANGED <<env, args0Test, fs, config, globalPrefix, constructed>>

\* The step a Load call takes next: the action enabled for the call.
StepOf(call) ==
    CASE call.pc = "idle" -> getConfigurationFilesStep(call)
      [] call.pc = "decode" /\ call.k <= Len(call.files) -> processFileStep(call)
      [] call.pc = "decode" /\ call.k > Len(call.files) -> processTagsStep(call)
      [] OTHER ->
            LET fr == call.stack[Len(call.stack)]
            IN  IF fr.phase = "elems" THEN ElemStep(call)
                ELSE IF fr.i <= NumField(fr.tn) THEN FieldStep(call)
                ELSE ReturnStep(call)

RECURSIVE RunAlone(_)
\* Load run from call to its return with no other call in between.
RunAlone(call) == IF call.pc = "done" THEN call ELSE RunAlone(StepOf(call))

Next ==
    \/ New
    \/ \E c \in Calls : LoadResolve(c)
    \/ \E c \in Calls : LoadDecode(c)
    \/ \E c \in Calls : LoadWalk(c)
    \/ \E c \in Calls : WalkField(c)
    \/ \E c \in Calls : WalkElem(c)
    \/ \E c \in Calls : WalkReturn(c)


----------------------------------------------------------------------------
(* Scenarios: the inputs of the bounded runs *)

RECURSIVE FileLeafPaths(_, _), Visits(_, _, _, _)

\* The leaf paths a decoder can write: those that lead through exported
\* fields only.
FileLeafPaths(tn, base) ==
    UNION { LET fd == Field(tn, i)
                p == base \o <<i>>
            IN  CASE ~fd.exported -> {}
                  [] fd.kind \in {"int", "ptrint"} -> {p}
                  [] IsStructKind(fd.kind) -> FileLeafPaths(fd.elem, p)
                  [] OTHER ->
                       UNION {FileLeafPaths(fd.elem, p \o <<j>>) : j \in 0..(MaxLen - 1)}
          : i \in 1..NumField(tn) }

\* The names of a field: its name and, when it has one, its serialization
\* name.
NamesOf(fd) ==
    {<<fd.Name>>} \cup (IF getJsonTag(fd) # NoName THEN {getJsonTag(fd)} ELSE {})

\* Every field the walk of a structure of type tn can visit, with its path
\* and the prefixes it is visited with (sequences taken at full length).
\* under holds the prefixes the field would have if every enclosing
\* structure field added each of its names and every sequence element its
\* index; the scenarios set variables under these names too.
Visits(tn, base, prefixes, under) ==
    UNION { LET fd == Field(tn, i)
                p == base \o <<i>>
                here == {[p |-> p, fd |-> fd, prefixes |-> prefixes, under |-> under]}
                inner == getPrefixForStruct(prefixes, fd)
                innerUnder == {u \o x : u \in under, x \in NamesOf(fd)}
            IN  CASE fd.kind \in {"int", "ptrint"} -> here
                  [] IsStructKind(fd.kind) ->
                       here \cup Visits(fd.elem, p, inner, innerUnder)
                  [] fd.kind = "slice" ->
                       here \cup UNION {Visits(fd.elem, p \o <<j>>,
                                           inner \o << <<ToString(j)>> >>,
                                           {u \o <<ToString(j)>> : u \in innerUnder})
                                        : j \in 0..(MaxLen - 1)}
                  [] OTHER -> here
          : i \in 1..NumField(tn) }

\* The fields of a target of type tn under the global prefix gp.
FieldsOf(tn, gp) ==
    IF tn = Scalar THEN {}
    ELSE Visits(tn, << >>, RootPrefixes(gp), {Flatten(RootPrefixes(gp))})

\* The names that concern one visited field: its candidates, its names
\* under every enclosing name (as written and upper-cased) and its env tag,
\* bare and prefixed.
RelatedNames(v, gp) ==
    LET derived == {u \o x : u \in v.under, x \in NamesOf(v.fd)}
        tagged == IF v.fd.env = NoName THEN {}
                  ELSE {v.fd.env} \cup
                       (IF gp = "" THEN {}
                        ELSE {<<gp>> \o v.fd.env, <<UpperOf(gp)>> \o v.fd.env})
    IN  Range(getEnvironmentVariables(v.fd, v.prefixes, gp)) \cup
        derived \cup {ToUpper(n) : n \in derived} \cup tagged

\* A regular file with the given content.
File(syntax, vals, lens, extra) ==
    [regular |-> TRUE, syntax |-> syntax, vals |-> vals, lens |-> lens, extra |-> extra]

\* A file that gives the value v to every leaf in leaves and the full length
\* to every sequence that holds one of them.
FileWith(tn, syntax, leaves, v) ==
    File(syntax, [p \in leaves |-> v],
         [q \in {q \in Slices(tn) : \E p \in leaves : IsPrefix(q, p)} |-> MaxLen], << >>)

\* Environments that set one name, or two names of one field to "7" and "8".
EnvValues == {"0", "7", "x"}
EnvsOver(names) ==
    {[n \in {m} |-> v] : m \in names, v \in EnvValues} \cup
    {[n \in {pr[1], pr[2]} |-> IF n = pr[1] THEN "7" ELSE "8"]
        : pr \in {pr \in names \X names : pr[1] # pr[2]}}
    \cup {[n \in {} |-> ""]}

RootTypes ==
    {"Config", "Nested", "Example", "PtrCfg", "SeqCfg", "SeqPtrCfg", "AnonCfg", "ReqCfg"}

ConfigFile == <<"config">>

\* The session prefixes of the walk scenarios and the global prefix each
\* resolves to.
WalkPrefixes == {"app", "-"}

\* The scenarios of the field walk for one target type and session prefix:
\* one visited field in focus, the environment over the names of that
\* field, the pointer fields allocated by the caller, and either no file or
\* one file that sets every leaf, or every leaf but those of the field in
\* focus.
WalkScenariosOf(tn, pre) ==
    LET gp == getEnvPrefix([ENVPrefix |-> pre], [n \in {} |-> ""])
        all == FileLeafPaths(tn, << >>)
    IN  UNION { { [typ |-> tn, ENVPrefix |-> pre, env |-> e, alloc |-> a, fs |-> f]
                  : e \in EnvsOver(RelatedNames(v, gp)),
                    a \in {{}, Pointers(tn)},
                    f \in { [n \in {} |-> File("json", << >>, << >>, << >>)],
                            [n \in {ConfigFile} |-> FileWith(tn, "json", all, 5)],
                            [n \in {ConfigFile} |->
                                FileWith(tn, "json",
                                         {q \in all : ~IsPrefix(v.p, q)}, 5)] } }
              : v \in FieldsOf(tn, gp) }

WalkScenarios ==
    UNION {WalkScenariosOf(sel[1], sel[2]) : sel \in RootTypes \X WalkPrefixes}

InitWalk ==
    \E sc \in WalkScenarios :
        /\ env = sc.env
        /\ args0Test = FALSE
        /\ fs = sc.fs
        /\ config = [Environment |-> "", ENVPrefix |-> sc.ENVPrefix, Debug |-> FALSE,
                     Verbose |-> FALSE, ErrorOnUnmatchedKeys |-> FALSE]
        /\ globalPrefix = ""
        /\ constructed = FALSE
        /\ ld = [c \in Calls |->
                    IF c = "c1"
                    THEN NewCall(sc.typ, Allocated(sc.typ, sc.alloc), <<ConfigFile>>)
                    ELSE NoCall]

Init == InitWalk

Spec == Init /\ [][Next]_vars

----------------------------------------------------------------------------
(* Scenarios of the file resolver *)

\* The names a caller passes to Load, the types of the targets and the
\* values CONFIGOR_ENV takes.
CandidateNames == {<<"a", "yaml">>, <<"b">>, <<"c", "json">>}
FileTypes == {"SeqCfg", "Config"}
EnvironmentNames == {"production", "example"}

\* The lists of distinct candidates of one Load call.
CandidateLists ==
    {cs \in UNION {[1..n -> CandidateNames] : n \in 1..MaxCandidates} :
        \A i, j \in DOMAIN cs : i # j => cs[i] # cs[j]}

\* The two siblings of a candidate.
SiblingNames(file, envName) == {EnvFileName(file, envName), EnvFileName(file, "example")}

\* The format a file is written in: that of its extension, TOML without one.
SyntaxOf(f) ==
    CASE f[Len(f)] = "yaml" -> "yaml"
      [] f[Len(f)] = "json" -> "json"
      [] OTHER -> "toml"

\* The value a file gives to every field it sets: one value per file.
ValueOf(f) ==
    (CASE f[1] = "a" -> 10 [] f[1] = "b" -> 20 [] OTHER -> 30) +
    (CASE "example" \in Range(f) -> 3 [] "production" \in Range(f) -> 2 [] OTHER -> 1)

\* The fields a file sets: an environment sibling sets APPName only, a base
\* file and an example file every field.
LeavesOf(tn, f) ==
    IF "production" \in Range(f)
    THEN {p \in FileLeafPaths(tn, << >>) : Len(p) = 1 /\ Field(tn, p[1]).Name = "APPName"}
    ELSE FileLeafPaths(tn, << >>)

\* A directory: os.Stat succeeds, the mode is not regular.
Directory ==
    [regular |-> FALSE, syntax |-> "", vals |-> << >>, lens |-> << >>, extra |-> << >>]

\* The file systems over the candidates of cs and their siblings: each name
\* absent or a regular file, at most one candidate's own name a directory.
FileSystems(cs, envName, tn) ==
    LET bases == Range(cs)
        names == bases \cup UNION {SiblingNames(f, envName) : f \in bases}
    IN  { [f \in pd[1] |->
              IF f \in pd[2] THEN Directory
              ELSE FileWith(tn, SyntaxOf(f), LeavesOf(tn, f), ValueOf(f))]
          : pd \in {pd \in (SUBSET names) \X ({{}} \cup {{b} : b \in bases}) :
                      pd[2] \subseteq pd[1]} }

InitFiles ==
    \E tn \in FileTypes, envName \in EnvironmentNames, cs \in CandidateLists :
        \E f \in FileSystems(cs, envName, tn) :
            /\ env = [n \in {CONFIGOR_ENV} |-> envName]
            /\ args0Test = FALSE
            /\ fs = f
            /\ config = [Environment |-> "", ENVPrefix |-> "-", Debug |-> FALSE,
                         Verbose |-> FALSE, ErrorOnUnmatchedKeys |-> FALSE]
            /\ globalPrefix = ""
            /\ constructed = FALSE
            /\ ld = [c \in Calls |->
                        IF c = "c1" THEN NewCall(tn, ZeroValue(tn), cs) ELSE NoCall]

SpecFiles == InitFiles /\ [][Next]_vars

----------------------------------------------------------------------------
(* Scenarios of the decoders *)

\* The names of the files decoded: with the extension of TOML, without an
\* extension, with the extension of YAML.
DecodeNames == {<<"a", "toml">>, <<"b">>, <<"c", "yaml">>}

\* The lists of distinct candidates of one Load call.
DecodeLists ==
    {cs \in UNION {[1..n -> DecodeNames] : n \in 1..MaxCandidates} :
        \A i, j \in DOMAIN cs : i # j => cs[i] # cs[j]}

\* The keys a file holds that the target does not declare.
ExtraKeys == {<< >>, <<"Test", "Other">>}

\* What a file can hold: a document in one of the three formats that sets
\* every field, with or without undeclared keys; a text that YAML reads as
\* one scalar; bytes that no decoder accepts.
ContentKinds ==
    {[syntax |-> sx, extra |-> x] : sx \in {"toml", "json", "yaml"}, x \in ExtraKeys}
    \cup {[syntax |-> sx, extra |-> << >>] : sx \in {"text", "binary"}}

\* The file of name f with a content of kind kd.
ContentOf(tn, f, kd) ==
    IF kd.syntax \in {"text", "binary"}
    THEN FileWith(tn, kd.syntax, {}, 0)
    ELSE [FileWith(tn, kd.syntax, FileLeafPaths(tn, << >>), ValueOf(f))
             EXCEPT !.extra = kd.extra]

\* The file systems that hold exactly the candidates of cs.
DecodeFileSystems(cs, tn) ==
    {[f \in Range(cs) |-> ContentOf(tn, f, kinds[f])] : kinds \in [Range(cs) -> ContentKinds]}

\* The process environment: empty, or a variable no integer field can take
\* for the Name of every element of Contacts and a variable for APPName,
\* which the walk visits later.
DecodeEnvs ==
    {[n \in {} |-> ""],
     [n \in {<<"Contacts", "Name">>, <<"APPName">>} |->
         IF n = <<"APPName">> THEN "7" ELSE "x"]}

InitDecode ==
    \E cs \in DecodeLists, strict \in BOOLEAN, e \in DecodeEnvs :
        \E f \in DecodeFileSystems(cs, "SeqCfg") :
            /\ env = e
            /\ args0Test = FALSE
            /\ fs = f
            /\ config = [Environment |-> "", ENVPrefix |-> "-", Debug |-> FALSE,
                         Verbose |-> FALSE, ErrorOnUnmatchedKeys |-> strict]
            /\ globalPrefix = ""
            /\ constructed = FALSE
            /\ ld = [c \in Calls |->
                        IF c = "c1"
                        THEN NewCall("SeqCfg", ZeroValue("SeqCfg"), cs) ELSE NoCall]

SpecDecode == InitDecode /\ [][Next]_vars

----------------------------------------------------------------------------------------------------------------------------------------
(* Scenarios of two calls of Load on one Configor *)

\* The file lists of the two calls: they share the file b.
ConcurrentLists == [c1 |-> << <<"a", "toml">>, <<"b">> >>, c2 |-> << <<"b">> >>]

InitConcurrent ==
    \E strict \in BOOLEAN, e \in DecodeEnvs :
        \E f \in DecodeFileSystems(ConcurrentLists["c1"], "SeqCfg") :
            /\ env = e
            /\ args0Test = FALSE
            /\ fs = f
            /\ config = [Environment |-> "", ENVPrefix |-> "-", Debug |-> FALSE,
                         Verbose |-> FALSE, ErrorOnUnmatchedKeys |-> strict]
            /\ globalPrefix = ""
            /\ constructed = FALSE
            /\ ld = [c \in Calls |->
                        NewCall("SeqCfg", ZeroValue("SeqCfg"), ConcurrentLists[c])]

SpecConcurrent == InitConcurrent /\ [][Next]_vars

----------------
(* Scenarios of the session *)

\* The values of Config.Environment, CONFIGOR_ENV, Config.ENVPrefix and
\* CONFIGOR_ENV_PREFIX ("" for a variable that is not set).
SessionEnvironments == {"", "staging"}
ProcessEnvironments == {"", "production"}
SessionPrefixes == {"", "-", "app"}
ProcessPrefixes == {"", "-", "APP"}

\* The environment names GetEnvironment can return in these scenarios; the
\* sibling of the configuration file for each gives APPName its own value.
ResolvedEnvironments == {"staging", "production", "test", "development"}
SiblingValue(e) ==
    CASE e = "staging" -> 1 [] e = "production" -> 2 [] e = "test" -> 3 [] OTHER -> 4

\* The configuration file, which sets every field to 5, and its siblings.
SessionFiles(tn) ==
    [f \in {ConfigFile} \cup {EnvFileName(ConfigFile, e) : e \in ResolvedEnvironments} |->
        IF f = ConfigFile
        THEN FileWith(tn, "json", FileLeafPaths(tn, << >>), 5)
        ELSE FileWith(tn, "json", LeavesOf(tn, <<"config", "production">>),
                      SiblingValue(f[Len(f)]))]

\* The variables of the top-level integer fields without an env tag: the
\* bare name and the name under each prefix the scenarios resolve to.
TopLevelNames(tn) ==
    UNION { {<<Field(tn, i).Name>>} \cup
            {<<pre, Field(tn, i).Name>> : pre \in {"Configor", "app", "APP"}}
          : i \in {i \in 1..NumField(tn) :
                      /\ Field(tn, i).kind = "int"
                      /\ Field(tn, i).exported
                      /\ Field(tn, i).env = NoName} }

\* The process environment of a session scenario: CONFIGOR_ENV and
\* CONFIGOR_ENV_PREFIX when set, and at most one field variable, set to "7".
SessionEnvs(tn) ==
    { [n \in ({CONFIGOR_ENV : x \in {pe} \ {""}} \cup
              {CONFIGOR_ENV_PREFIX : x \in {pp} \ {""}} \cup fv) |->
          CASE n = CONFIGOR_ENV -> pe
            [] n = CONFIGOR_ENV_PREFIX -> pp
            [] OTHER -> "7"]
      : pe \in ProcessEnvironments, pp \in ProcessPrefixes,
        fv \in {{}} \cup {{n} : n \in TopLevelNames(tn)} }

InitSession ==
    \E tn \in FileTypes, se \in SessionEnvironments, sp \in SessionPrefixes,
       isTest \in BOOLEAN :
        \E e \in SessionEnvs(tn) :
            /\ env = e
            /\ args0Test = isTest
            /\ fs = SessionFiles(tn)
            /\ config = [Environment |-> se, ENVPrefix |-> sp, Debug |-> FALSE,
                         Verbose |-> FALSE, ErrorOnUnmatchedKeys |-> FALSE]
            /\ globalPrefix = ""
            /\ constructed = FALSE
            /\ ld = [c \in Calls |->
                        IF c = "c1"
                        THEN NewCall(tn, ZeroValue(tn), <<ConfigFile>>) ELSE NoCall]

SpecSession == InitSession /\ [][Next]_vars


----------------------------------------------------------------------------
(* Properties *)

Done(c) == ld[c].pc = "done"
Succeeded(c) == Done(c) /\ ld[c].err = NoError

\* The fields of the target of call c that exist in it or in an instance
\* the walk made: those whose sequence indexes are within the lengths.
TargetFields(c) ==
    {v \in FieldsOf(ld[c].typ, globalPrefix) : InRange(ld[c].target, v.p)}

\* The leaf paths to which a file decoded by call c gave a value.
FileGave(c) ==
    UNION {DOMAIN fs[ld[c].files[k]].vals : k \in 1..(ld[c].k - 1)}

\* The candidate names of a visited field and the first one that is set.
CandidatesOf(v) == getEnvironmentVariables(v.fd, v.prefixes, globalPrefix)
FirstSetOf(v) == FirstSet(env, CandidatesOf(v))

\* The field holds a non-zero value in the target itself.
NonZeroInTarget(tgt, v) ==
    /\ Attached(tgt, v.p)
    /\ CASE v.fd.kind = "int" -> tgt.val[v.p] # 0
         [] IsPtrKind(v.fd.kind) -> TRUE
         [] v.fd.kind = "struct" -> ~ZeroStruct(v.fd.elem, v.p, tgt)
         [] OTHER -> tgt.slen[v.p] > 0

\* C1: after a Load that returns no error, every field tagged required (at
\* any depth the walk reaches, pointer-typed fields included) holds a
\* non-zero value in the target itself.
C1_RequiredNonZeroInTarget ==
    \A c \in Calls :
        Succeeded(c) =>
            \A v \in TargetFields(c) :
                v.fd.required => NonZeroInTarget(ld[c].target, v)

\* C2 as stated: after a successful Load, a settable field to which a
\* decoded file gave a value and one of whose candidate variables is set
\* holds the value parsed from that variable (the first set candidate).
C2_EnvBeatsFile ==
    \A c \in Calls :
        Succeeded(c) =>
            \A v \in TargetFields(c) :
                (/\ v.fd.exported
                 /\ v.p \in FileGave(c)
                 /\ FirstSetOf(v) # 0)
                => TargetValue(ld[c].target, v.p) =
                       ParseInt(env[CandidatesOf(v)[FirstSetOf(v)]])

\* C2 amended: ... holds the value parsed from the first set candidate,
\* unless the field is not a pointer, that value is the zero value and the
\* field has a default tag: then it holds the parsed default.
C2_EnvBeatsFileUnlessZero ==
    \A c \in Calls :
        Succeeded(c) =>
            \A v \in TargetFields(c) :
                (/\ v.fd.exported
                 /\ v.p \in FileGave(c)
                 /\ FirstSetOf(v) # 0)
                => LET parsed == ParseInt(env[CandidatesOf(v)[FirstSetOf(v)]])
                   IN  TargetValue(ld[c].target, v.p) =
                           IF parsed = <<0>> /\ v.fd.default # "" /\ v.fd.kind = "int"
                           THEN ParseInt(v.fd.default) ELSE parsed

\* A successful Load in which a variable replaced the value a file gave.
C2_Witness ==
    \E c \in Calls :
        /\ Succeeded(c)
        /\ \E v \in TargetFields(c) :
              /\ v.p \in FileGave(c) /\ FirstSetOf(v) # 0
              /\ fs[ConfigFile].vals[v.p] = 5
              /\ TargetValue(ld[c].target, v.p) = <<7>>


\* The frame on top of the recursion of call c, and whether the call is
\* about to process a field.
Top(c) == ld[c].stack[Len(ld[c].stack)]
AtField(c) ==
    /\ ld[c].pc = "walk"
    /\ Top(c).phase = "field"
    /\ Top(c).i <= NumField(Top(c).tn)

C9_UnprefixedEnvTagWins ==
    \A c \in Calls :
        Succeeded(c) =>
            \A v \in TargetFields(c) :
                (/\ v.fd.env # NoName
                 /\ globalPrefix # ""
                 /\ Getenv(env, v.fd.env) # ""
                 /\ \/ Getenv(env, <<globalPrefix>> \o v.fd.env) # ""
                    \/ Getenv(env, <<UpperOf(globalPrefix)>> \o v.fd.env) # "")
                => TargetValue(ld[c].target, v.p) = ParseInt(env[v.fd.env])

\* A successful Load with N and P_N set to different values, the field
\* holding the value of N.
C9_Witness ==
    \E c \in Calls :
        /\ Succeeded(c)
        /\ \E v \in TargetFields(c) :
              /\ v.fd.env # NoName
              /\ globalPrefix # ""
              /\ Getenv(env, v.fd.env) = "8"
              /\ Getenv(env, <<globalPrefix>> \o v.fd.env) = "7"
              /\ TargetValue(ld[c].target, v.p) = <<8>>

\* The top-level structure fields F of the target of call c (a pointer to a
\* structure only when it was not nil at the walk) with their integer
\* sub-fields G.
NestedLeaves(c) ==
    IF ld[c].typ = Scalar THEN {}
    ELSE {nl \in [i : 1..NumField(ld[c].typ), k : 1..3] :
            LET F == Field(ld[c].typ, nl.i)
            IN  /\ IsStructKind(F.kind)
                /\ F.kind = "ptrstruct" => <<nl.i>> \notin ld[c].afterFiles.nilp
                /\ nl.k <= NumField(F.elem)
                /\ Field(F.elem, nl.k).kind = "int"}

\* The upper-cased names P_F_G, P_F_H, P_J_G, P_J_H (without P_ when there
\* is no global prefix).
NestedNames(F, G) ==
    {ToUpper(Flatten(RootPrefixes(globalPrefix)) \o x \o y) : x \in NamesOf(F), y \in NamesOf(G)}

\* C10 as stated: with exactly one of those names set, F.G holds the value
\* of that variable after Load.
C10_NestedNames ==
    \A c \in Calls :
        Succeeded(c) =>
            \A nl \in NestedLeaves(c) :
                LET F == Field(ld[c].typ, nl.i)
                    G == Field(F.elem, nl.k)
                IN  \A n \in NestedNames(F, G) :
                        DOMAIN env = {n} =>
                            TargetValue(ld[c].target, <<nl.i, nl.k>>) = ParseInt(env[n])


\* C10 amended: F is not an embedded structure tagged anonymous:"true" and
\* G declares no env tag; with exactly one of those names set, after a
\* successful Load F.G holds the value parsed from that variable, unless
\* that value is zero and G has a default tag: then F.G holds the default.
C10_NestedNamesUntagged ==
    \A c \in Calls :
        Succeeded(c) =>
            \A nl \in NestedLeaves(c) :
                LET F == Field(ld[c].typ, nl.i)
                    G == Field(F.elem, nl.k)
                IN  (F.anonymous # "tagged" /\ G.env = NoName) =>
                    \A n \in NestedNames(F, G) :
                        DOMAIN env = {n} =>
                            TargetValue(ld[c].target, <<nl.i, nl.k>>) =
                                IF ParseInt(env[n]) = <<0>> /\ G.default # ""
                                THEN ParseInt(G.default) ELSE ParseInt(env[n])

\* A successful Load that set a sub-field behind a pointer from the variable
\* named by the serialization names, P_J_H.
C10_Witness ==
    \E c \in Calls :
        /\ Succeeded(c)
        /\ \E nl \in NestedLeaves(c) :
              LET F == Field(ld[c].typ, nl.i)
                  G == Field(F.elem, nl.k)
                  n == ToUpper(Flatten(RootPrefixes(globalPrefix)) \o getJsonTag(F) \o getJsonTag(G))
              IN  /\ F.kind = "ptrstruct" /\ G.env = NoName
                  /\ getJsonTag(F) # NoName /\ getJsonTag(G) # NoName
                  /\ globalPrefix # ""
                  /\ DOMAIN env = {n} /\ env[n] = "7"
                  /\ TargetValue(ld[c].target, <<nl.i, nl.k>>) = <<7>>

----------------------------------------------------------------------------
(* Properties of the file resolver *)

\* The call has resolved its files; the call has decoded every one of them.
Resolved(c) == ld[c].pc \in {"decode", "walk", "done"}
FilesDecoded(c) == ld[c].pc \in {"walk", "done"} /\ ld[c].k > Len(ld[c].files)

\* The three names of the i-th candidate of call c and the candidate a
\* resolved file belongs to.
BaseOf(c, i) == ld[c].cands[i]
EnvSiblingOf(c, i) == EnvFileName(ld[c].cands[i], ld[c].environment)
ExampleOf(c, i) == EnvFileName(ld[c].cands[i], "example")
NamesOfCandidate(c, i) == {BaseOf(c, i), EnvSiblingOf(c, i), ExampleOf(c, i)}
OwnerOf(c, f) == CHOOSE i \in DOMAIN ld[c].cands : f \in NamesOfCandidate(c, i)

\* None of the three files of the i-th candidate is a regular file.
NothingFound(c, i) == \A f \in NamesOfCandidate(c, i) : ~IsRegularFile(fs, f)

\* C4: in the resolved list every file of a later-listed candidate comes
\* before every file of an earlier-listed one, and a candidate's base file
\* before its environment sibling; a field that files set holds, when the
\* files are decoded and after a successful Load, a value given by a file of
\* the earliest-listed candidate that sets it.
C4_EarlierCandidateWins ==
    \A c \in Calls :
        Resolved(c) =>
            LET files == ld[c].files
            IN  /\ \A x, y \in DOMAIN files :
                      x < y =>
                          /\ OwnerOf(c, files[x]) >= OwnerOf(c, files[y])
                          /\ OwnerOf(c, files[x]) = OwnerOf(c, files[y]) =>
                                /\ files[x] = BaseOf(c, OwnerOf(c, files[x]))
                                /\ files[y] = EnvSiblingOf(c, OwnerOf(c, files[y]))
                /\ FilesDecoded(c) =>
                      \A p \in Leaves(ld[c].typ) :
                          LET givers == {x \in DOMAIN files : p \in DOMAIN fs[files[x]].vals}
                              owners == {OwnerOf(c, files[x]) : x \in givers}
                              first == CHOOSE i \in owners : \A j \in owners : i <= j
                          IN  givers # {} =>
                                  \E x \in givers :
                                      /\ OwnerOf(c, files[x]) = first
                                      /\ ld[c].afterFiles.val[p] = fs[files[x]].vals[p]
                                      /\ Succeeded(c) =>
                                            TargetValue(ld[c].target, p) =
                                                <<fs[files[x]].vals[p]>>

\* A successful Load of two candidates that both have a base file and an
\* environment sibling: a field both base files set holds the value of the
\* first candidate's.
C4_Witness ==
    \E c \in Calls :
        /\ Succeeded(c)
        /\ Len(ld[c].cands) = 2
        /\ ld[c].files =
              <<BaseOf(c, 2), EnvSiblingOf(c, 2), BaseOf(c, 1), EnvSiblingOf(c, 1)>>
        /\ \E p \in DOMAIN fs[BaseOf(c, 1)].vals \cap DOMAIN fs[BaseOf(c, 2)].vals :
              /\ fs[BaseOf(c, 1)].vals[p] # fs[BaseOf(c, 2)].vals[p]
              /\ TargetValue(ld[c].target, p) = <<fs[BaseOf(c, 1)].vals[p]>>

\* C5: when a candidate and its environment sibling are both regular files,
\* every field the sibling sets holds the sibling's value and every other
\* field the base file sets holds the base file's value, once the files are
\* decoded and after a successful Load (fields that a file of an
\* earlier-listed candidate sets aside).
C5_EnvironmentOverlay ==
    \A c \in Calls :
        FilesDecoded(c) =>
            \A i \in DOMAIN ld[c].cands :
                LET base == BaseOf(c, i)
                    sib == EnvSiblingOf(c, i)
                    before == {x \in DOMAIN ld[c].files : OwnerOf(c, ld[c].files[x]) < i}
                    earlier == UNION {DOMAIN fs[ld[c].files[x]].vals : x \in before}
                IN  (IsRegularFile(fs, base) /\ IsRegularFile(fs, sib)) =>
                        \A p \in (DOMAIN fs[base].vals \cup DOMAIN fs[sib].vals) \ earlier :
                            LET v == IF p \in DOMAIN fs[sib].vals
                                     THEN fs[sib].vals[p] ELSE fs[base].vals[p]
                            IN  /\ ld[c].afterFiles.val[p] = v
                                /\ Succeeded(c) => TargetValue(ld[c].target, p) = <<v>>

\* A successful Load under CONFIGOR_ENV=production of a candidate with both
\* files: one field holds the sibling's value, another the base file's.
C5_Witness ==
    \E c \in Calls :
        /\ Succeeded(c)
        /\ ld[c].environment = "production"
        /\ IsRegularFile(fs, BaseOf(c, 1))
        /\ IsRegularFile(fs, EnvSiblingOf(c, 1))
        /\ \E p, q \in DOMAIN fs[BaseOf(c, 1)].vals :
              /\ p \in DOMAIN fs[EnvSiblingOf(c, 1)].vals
              /\ q \notin DOMAIN fs[EnvSiblingOf(c, 1)].vals
              /\ fs[EnvSiblingOf(c, 1)].vals[p] # fs[BaseOf(c, 1)].vals[p]
              /\ TargetValue(ld[c].target, p) = <<fs[EnvSiblingOf(c, 1)].vals[p]>>
              /\ TargetValue(ld[c].target, q) = <<fs[BaseOf(c, 1)].vals[q]>>

\* What holds of a candidate none of whose three files is a regular file: no
\* file of the list is one of them; when that is so of every candidate the
\* list is empty, the walk meets the target as it was passed and Load ends
\* without error or with the error of a required field.
NothingFoundIsHarmless(c) ==
    /\ \A i \in DOMAIN ld[c].cands :
          NothingFound(c, i) => Range(ld[c].files) \cap NamesOfCandidate(c, i) = {}
    /\ (\A i \in DOMAIN ld[c].cands : NothingFound(c, i)) =>
          /\ ld[c].files = << >>
          /\ ld[c].pc = "decode" => ld[c].err = NoError
          /\ FilesDecoded(c) => ld[c].afterFiles = ld[c].initial
          /\ Done(c) => ld[c].err.kind \in {"nil", "required"}

\* C6 as stated: the example sibling of a candidate is in the resolved list
\* if and only if neither the base file nor the environment sibling is a
\* regular file and the example sibling is; a candidate with none of the
\* three contributes nothing and causes no error.
C6_ExampleFallback ==
    \A c \in Calls :
        Resolved(c) =>
            /\ \A i \in DOMAIN ld[c].cands :
                  ExampleOf(c, i) \in Range(ld[c].files) <=>
                      /\ ~IsRegularFile(fs, BaseOf(c, i))
                      /\ ~IsRegularFile(fs, EnvSiblingOf(c, i))
                      /\ IsRegularFile(fs, ExampleOf(c, i))
            /\ NothingFoundIsHarmless(c)

\* C6 amended: the same for a candidate whose example sibling is not its
\* environment sibling (the resolved environment name is not "example").
C6_ExampleFallbackOtherEnvironment ==
    \A c \in Calls :
        Resolved(c) =>
            /\ \A i \in DOMAIN ld[c].cands :
                  ExampleOf(c, i) # EnvSiblingOf(c, i) =>
                      (ExampleOf(c, i) \in Range(ld[c].files) <=>
                          /\ ~IsRegularFile(fs, BaseOf(c, i))
                          /\ ~IsRegularFile(fs, EnvSiblingOf(c, i))
                          /\ IsRegularFile(fs, ExampleOf(c, i)))
            /\ NothingFoundIsHarmless(c)

\* A successful Load under CONFIGOR_ENV=production of one candidate whose
\* name is a directory and whose only regular file is the example sibling:
\* the list is that sibling and the target holds its values.
C6_Witness ==
    \E c \in Calls :
        /\ Succeeded(c)
        /\ ld[c].environment = "production"
        /\ BaseOf(c, 1) \in DOMAIN fs
        /\ ~IsRegularFile(fs, BaseOf(c, 1))
        /\ ~IsRegularFile(fs, EnvSiblingOf(c, 1))
        /\ ld[c].files = <<ExampleOf(c, 1)>>
        /\ \E p \in DOMAIN fs[ExampleOf(c, 1)].vals :
              TargetValue(ld[c].target, p) = <<fs[ExampleOf(c, 1)].vals[p]>>

----------------------------------------------------------------------------
(* Properties of the session *)

\* C7: the environment name Load resolves is the session's Environment when
\* that is not empty, else the value of CONFIGOR_ENV when that is not empty,
\* else "test" when the process name matches, else "development"; the
\* sibling decoded is the one of that name.
C7_EnvironmentPriority ==
    \A c \in Calls :
        Resolved(c) =>
            LET expected ==
                    IF config.Environment # "" THEN config.Environment
                    ELSE IF Getenv(env, CONFIGOR_ENV) # "" THEN env[CONFIGOR_ENV]
                    ELSE IF args0Test THEN "test"
                    ELSE "development"
                sib == EnvFileName(ConfigFile, expected)
            IN  /\ ld[c].environment = expected
                /\ ld[c].files = <<ConfigFile, sib>>
                /\ FilesDecoded(c) =>
                      \A p \in DOMAIN fs[sib].vals :
                          ld[c].afterFiles.val[p] = SiblingValue(expected)

\* A successful Load with Environment "staging" while CONFIGOR_ENV is
\* "production" and the process name matches the test pattern: the staging
\* sibling was decoded.
C7_Witness ==
    \E c \in Calls :
        /\ Succeeded(c)
        /\ config.Environment = "staging"
        /\ Getenv(env, CONFIGOR_ENV) = "production"
        /\ args0Test
        /\ ld[c].files = <<ConfigFile, <<"config", "staging">>>>
        /\ \E p \in DOMAIN fs[<<"config", "staging">>].vals :
              TargetValue(ld[c].target, p) = <<SiblingValue("staging")>>

\* C8: the global prefix of a Load is the value of CONFIGOR_ENV_PREFIX when
\* that is not empty ("-" for none), else the session's ENVPrefix ("-" for
\* none, empty for "Configor"); the walk starts with that prefix alone, or
\* with no prefix when there is none; a top-level integer field without an
\* env tag then takes the variable named prefix_Name (Name when there is no
\* prefix) when it is set, and keeps its value after the files when no
\* candidate of it is set.
C8_GlobalPrefix ==
    \A c \in Calls :
        ld[c].pc \in {"walk", "done"} =>
            LET fromProcess == Getenv(env, CONFIGOR_ENV_PREFIX)
                expected ==
                    IF fromProcess # ""
                    THEN (IF fromProcess = "-" THEN "" ELSE fromProcess)
                    ELSE IF config.ENVPrefix = "-" THEN ""
                    ELSE IF config.ENVPrefix = "" THEN "Configor"
                    ELSE config.ENVPrefix
            IN  /\ globalPrefix = expected
                /\ ld[c].pc = "walk" =>
                      ld[c].stack[1].prefixes =
                          (IF expected = "" THEN << >> ELSE << <<expected>> >>)
                /\ Succeeded(c) =>
                      \A i \in 1..NumField(ld[c].typ) :
                          LET fd == Field(ld[c].typ, i)
                              name == IF expected = "" THEN <<fd.Name>>
                                      ELSE <<expected, fd.Name>>
                          IN  (fd.kind = "int" /\ fd.exported /\ fd.env = NoName) =>
                                  TargetValue(ld[c].target, <<i>>) =
                                      IF Getenv(env, name) # ""
                                      THEN ParseInt(env[name])
                                      ELSE <<ld[c].afterFiles.val[<<i>>]>>

\* A successful Load with CONFIGOR_ENV_PREFIX "-" over the session's prefix
\* "app": a top-level field took the value of the variable of its bare name.
C8_Witness ==
    \E c \in Calls :
        /\ Succeeded(c)
        /\ Getenv(env, CONFIGOR_ENV_PREFIX) = "-"
        /\ config.ENVPrefix = "app"
        /\ globalPrefix = ""
        /\ \E i \in 1..NumField(ld[c].typ) :
              /\ Getenv(env, <<Field(ld[c].typ, i).Name>>) = "7"
              /\ ld[c].afterFiles.val[<<i>>] # 7
              /\ TargetValue(ld[c].target, <<i>>) = <<7>>

----------------------------------------------------------------------------
(* Properties of the names of nested fields *)

\* The visited field lies in an element of a sequence of the target.
InElement(c, v) ==
    \E q \in DOMAIN ld[c].target.slen : IsPrefix(q, v.p) /\ Len(v.p) > Len(q)

\* The names a field has when every enclosing structure field adds each of
\* its names to every prefix and every sequence element its index: p_S_i_G
\* for the sub-field G of element i of S, as written and upper-cased.
SegmentNames(v) ==
    LET derived == {u \o x : u \in v.under, x \in NamesOf(v.fd)}
    IN  derived \cup {ToUpper(n) : n \in derived}

\* C11: the walk of element i of a sequence field S uses the prefixes p_S_i,
\* so that the variable p_S_i_G, set alone to a non-zero integer, gives its
\* value to the sub-field G of element i after a successful Load.
C11_ElementNames ==
    \A c \in Calls :
        Succeeded(c) =>
            \A v \in TargetFields(c) :
                (InElement(c, v) /\ v.fd.kind = "int" /\ v.fd.env = NoName) =>
                    \A n \in SegmentNames(v) :
                        (DOMAIN env = {n} /\ ParseInt(env[n]) \notin {<< >>, <<0>>}) =>
                            TargetValue(ld[c].target, v.p) = ParseInt(env[n])

\* The top-level embedded structure fields F tagged anonymous:"true" of the
\* target of call c with their integer sub-fields G that have no env tag.
AnonymousLeaves(c) ==
    IF ld[c].typ = Scalar THEN {}
    ELSE {nl \in [i : 1..NumField(ld[c].typ), k : 1..3] :
            LET F == Field(ld[c].typ, nl.i)
            IN  /\ F.kind = "struct"
                /\ F.anonymous = "tagged"
                /\ nl.k <= NumField(F.elem)
                /\ Field(F.elem, nl.k).kind = "int"
                /\ Field(F.elem, nl.k).env = NoName}

\* The frame on top of the recursion of call c was entered through an
\* embedded structure field tagged anonymous:"true" of the frame below.
InAnonymous(c) ==
    /\ ld[c].pc = "walk"
    /\ Len(ld[c].stack) >= 2
    /\ LET below == ld[c].stack[Len(ld[c].stack) - 1]
       IN  /\ below.phase = "field"
           /\ below.i >= 2
           /\ Field(below.tn, below.i - 1).anonymous = "tagged"

\* C12: the fields of an embedded structure tagged anonymous:"true" are
\* walked with the prefixes of the embedding structure, unchanged (none when
\* there is none); a sub-field G then has the names of a direct field: the
\* variable P_G (G without a prefix), set alone to a non-zero integer, gives
\* G its value after a successful Load, and the variable P_F_G, set alone,
\* leaves G as the files left it.
C12_AnonymousPassthrough ==
    \A c \in Calls :
        /\ InAnonymous(c) =>
              Top(c).prefixes = ld[c].stack[Len(ld[c].stack) - 1].prefixes
        /\ Succeeded(c) =>
              \A nl \in AnonymousLeaves(c) :
                  LET F == Field(ld[c].typ, nl.i)
                      G == Field(F.elem, nl.k)
                      P == Flatten(RootPrefixes(globalPrefix))
                      p == <<nl.i, nl.k>>
                  IN  /\ \A n \in {P \o x : x \in NamesOf(G)} :
                            \A m \in {n, ToUpper(n)} :
                                (DOMAIN env = {m} /\ ParseInt(env[m]) \notin {<< >>, <<0>>}) =>
                                    TargetValue(ld[c].target, p) = ParseInt(env[m])
                      /\ \A n \in {P \o y \o x : y \in NamesOf(F), x \in NamesOf(G)} :
                            \A m \in {n, ToUpper(n)} :
                                DOMAIN env = {m} =>
                                    /\ m \notin Range(getEnvironmentVariables(
                                                        G, RootPrefixes(globalPrefix),
                                                        globalPrefix))
                                    /\ ld[c].afterFiles.val[p] # 0 =>
                                          TargetValue(ld[c].target, p) =
                                              <<ld[c].afterFiles.val[p]>>

\* A successful Load without a global prefix in which the variable of the
\* bare name of the inner field replaced the value of the file.
C12_Witness ==
    \E c \in Calls :
        /\ Succeeded(c)
        /\ globalPrefix = ""
        /\ \E nl \in AnonymousLeaves(c) :
              LET G == Field(Field(ld[c].typ, nl.i).elem, nl.k)
              IN  /\ DOMAIN env = {<<G.Name>>}
                  /\ env[<<G.Name>>] = "7"
                  /\ ld[c].afterFiles.val[<<nl.i, nl.k>>] = 5
                  /\ TargetValue(ld[c].target, <<nl.i, nl.k>>) = <<7>>

----------------------------------------------------------------------------
(* Properties of the decoders *)

\* processFile was called on the x-th file of the list of call c.
Processed(c, x) == Len(ld[c].tried) >= x

\* The file has none of the extensions processFile recognizes.
NoKnownExtension(f) ==
    ~(HasSuffix(f, "yaml") \/ HasSuffix(f, "yml") \/ HasSuffix(f, "toml")
        \/ HasSuffix(f, "json"))

\* C13: for a processed TOML file (extension toml or no recognized one) with
\* keys the target does not declare: with ErrorOnUnmatchedKeys, Load has
\* returned at that file the unmatched-keys error whose keys are exactly the
\* undeclared ones; without it, the file was decoded without error, gave its
\* values to the target, and a Load of that file alone with no variable set
\* succeeds.
C13_UnmatchedTomlKeys ==
    \A c \in Calls :
        Resolved(c) =>
            \A x \in DOMAIN ld[c].files :
                LET f == ld[c].files[x]
                IN  (/\ Processed(c, x)
                     /\ HasSuffix(f, "toml") \/ NoKnownExtension(f)
                     /\ fs[f].syntax = "toml"
                     /\ fs[f].extra # << >>)
                    => IF config.ErrorOnUnmatchedKeys
                       THEN /\ Done(c)
                            /\ ld[c].k = x
                            /\ ld[c].stack = << >>
                            /\ ld[c].err.kind = "UnmatchedTomlKeysError"
                            /\ Len(ld[c].err.detail) = Len(fs[f].extra)
                            /\ Range(ld[c].err.detail) = Range(fs[f].extra)
                       ELSE /\ ld[c].k > x
                            /\ ld[c].err.kind # "UnmatchedTomlKeysError"
                            /\ (x = Len(ld[c].files) /\ FilesDecoded(c)) =>
                                  \A p \in DOMAIN fs[f].vals :
                                      ld[c].afterFiles.val[p] = fs[f].vals[p]
                            /\ (Len(ld[c].files) = 1 /\ DOMAIN env = {} /\ Done(c)) =>
                                  /\ Succeeded(c)
                                  /\ \A p \in DOMAIN fs[f].vals :
                                        TargetValue(ld[c].target, p) = <<fs[f].vals[p]>>

\* A Load with ErrorOnUnmatchedKeys of a TOML file without extension that
\* holds the undeclared keys Test and Other: it returned the error with
\* those keys.
C13_Witness ==
    \E c \in Calls :
        /\ Done(c)
        /\ config.ErrorOnUnmatchedKeys
        /\ ld[c].files = << <<"b">> >>
        /\ fs[<<"b">>].syntax = "toml"
        /\ ld[c].err = Err("UnmatchedTomlKeysError", <<"Test", "Other">>)

\* The error of one decoder on the content of file f.
DecoderError(format, f) ==
    LET strict == config.ErrorOnUnmatchedKeys
        zero == ZeroValue("SeqCfg")
    IN  CASE format = "toml" -> unmarshalToml(fs[f], zero, strict).err
          [] format = "json" -> unmarshalJSON(fs[f], zero, strict).err
          [] OTHER -> unmarshalYaml(fs[f], zero, strict).err

\* The error reports a key the target does not declare.
IsUnmatched(err) ==
    err.kind \in {"UnmatchedTomlKeysError", "json: unknown field"}

\* C19: for a processed file with no recognized extension, the decoders
\* called are a start of TOML, JSON, YAML; each decoder before the last one
\* called failed with an error that is not an unmatched-key error; when the
\* last one called decoded without error the file is accepted and Load goes
\* on, when it reports an unmatched key Load has returned that error, and
\* fewer than three decoders are called only for one of these two reasons.
C19_DecoderOrder ==
    \A c \in Calls :
        \A x \in DOMAIN ld[c].tried :
            LET f == ld[c].files[x]
                called == ld[c].tried[x]
                last == DecoderError(called[Len(called)], f)
            IN  NoKnownExtension(f) =>
                    /\ called \in {<<"toml">>, <<"toml", "json">>, <<"toml", "json", "yaml">>}
                    /\ \A i \in 1..(Len(called) - 1) :
                          /\ DecoderError(called[i], f) # NoError
                          /\ ~IsUnmatched(DecoderError(called[i], f))
                    /\ Len(called) < 3 => (last = NoError \/ IsUnmatched(last))
                    /\ last = NoError => (ld[c].k > x /\ ld[c].err.kind # "failed to decode config")
                    /\ IsUnmatched(last) =>
                          /\ Done(c)
                          /\ ld[c].k = x
                          /\ ld[c].err = last

\* In strict mode a TOML file without extension that holds undeclared keys
\* was processed in a list of two files: only the TOML decoder was called
\* and Load returned its unmatched-keys error.
C19_Witness ==
    \E c \in Calls :
        /\ Done(c)
        /\ Len(ld[c].files) = 2
        /\ \E x \in DOMAIN ld[c].tried :
              /\ ld[c].files[x] = <<"b">>
              /\ ld[c].tried[x] = <<"toml">>
              /\ ld[c].err.kind = "UnmatchedTomlKeysError"

\* The three decoders were called on the x-th file of call c, which has no
\* recognized extension, and all failed.
AllDecodersFailed(c, x) ==
    LET f == ld[c].files[x]
    IN  /\ NoKnownExtension(f)
        /\ ld[c].tried[x] = <<"toml", "json", "yaml">>
        /\ \A format \in {"toml", "json", "yaml"} : DecoderError(format, f) # NoError

\* Load has returned the generic decoding error at the x-th file.
GenericFailure(c, x) ==
    /\ Done(c)
    /\ ld[c].k = x
    /\ ld[c].err = Err("failed to decode config", << >>)

\* C20 as stated: when the TOML, JSON and YAML decoders all fail on a file
\* with no recognized extension, Load returns the generic decoding error.
C20_GenericFailure ==
    \A c \in Calls :
        \A x \in DOMAIN ld[c].tried :
            AllDecodersFailed(c, x) => GenericFailure(c, x)

\* C20 amended: when the three decoders all fail, Load returns the generic
\* decoding error unless the YAML failure is a yaml.TypeError, which Load
\* returns as it is.
C20_GenericFailureUnlessTypeError ==
    \A c \in Calls :
        \A x \in DOMAIN ld[c].tried :
            AllDecodersFailed(c, x) =>
                LET yamlError == DecoderError("yaml", ld[c].files[x])
                IN  IF yamlError.kind = "yaml.TypeError"
                    THEN Done(c) /\ ld[c].k = x /\ ld[c].err = yamlError
                    ELSE GenericFailure(c, x)

\* A file without extension that none of the decoders can read, with a YAML
\* failure that is no type error: Load returned the generic error.
C20_Witness ==
    \E c \in Calls :
        \E x \in DOMAIN ld[c].tried :
            /\ AllDecodersFailed(c, x)
            /\ fs[ld[c].files[x]].syntax = "binary"
            /\ GenericFailure(c, x)

----------------------------------------------------------------------------
(* Properties of the errors of Load *)

\* The value at path p is visited before the value at path q by the loops
\* of processTags (fields in declaration order, elements in index order).
VisitedBefore(p, q) ==
    \E i \in 1..Len(p) :
        /\ i <= Len(q)
        /\ SubSeq(p, 1, i - 1) = SubSeq(q, 1, i - 1)
        /\ p[i] < q[i]

\* The error of the decoder of file f for the target of call c.
DecodeError(c, f) ==
    processFile(ld[c].initial, f, fs[f], config.ErrorOnUnmatchedKeys).err

\* The field walk of call c has returned an error at a field.
WalkFailed(c) == Done(c) /\ ld[c].err # NoError /\ ld[c].stack # << >>

\* C14: when the decoder of a processed file fails, Load has returned that
\* error at that file, with no later file processed and the field walk not
\* started; when the field walk fails at a field, every value visited after
\* that field is still the value the files left.
C14_FirstError ==
    \A c \in Calls :
        Resolved(c) =>
            /\ \A x \in DOMAIN ld[c].files :
                  (Processed(c, x) /\ DecodeError(c, ld[c].files[x]) # NoError)
                  => /\ Done(c)
                     /\ ld[c].k = x
                     /\ Len(ld[c].tried) = x
                     /\ ld[c].stack = << >>
                     /\ ld[c].afterFiles = ld[c].initial
                     /\ ld[c].err = DecodeError(c, ld[c].files[x])
            /\ WalkFailed(c) =>
                  LET fr == ld[c].stack[Len(ld[c].stack)]
                      p == fr.base \o <<fr.i>>
                  IN  /\ ld[c].k = Len(ld[c].files) + 1
                      /\ ld[c].target.nilp = ld[c].afterFiles.nilp
                      /\ ld[c].target.slen = ld[c].afterFiles.slen
                      /\ \A q \in DOMAIN ld[c].target.val :
                            (q = p \/ VisitedBefore(p, q)) =>
                                ld[c].target.val[q] = ld[c].afterFiles.val[q]

\* The walk failed at the Name of the first element of Contacts while the
\* variable APPName was set: APPName, visited later, kept the file's value.
C14_Witness ==
    \E c \in Calls :
        /\ WalkFailed(c)
        /\ ld[c].stack[Len(ld[c].stack)].base = <<1, 0>>
        /\ Getenv(env, <<"APPName">>) = "7"
        /\ TargetValue(ld[c].target, <<2>>) # <<7>>
        /\ TargetValue(ld[c].target, <<2>>) = TargetValue(ld[c].afterFiles, <<2>>)

\* C15: Load returns the invalid-target error exactly when the target is
\* not a structure; a structure target never gets it, whatever the kinds of
\* its fields.
C15_InvalidTarget ==
    \A c \in Calls :
        Done(c) =>
            (ld[c].err.kind = "invalid config, should be struct"
                <=> ld[c].typ = Scalar)

----------------------------------------------------------------------------
(* Properties of calls of Load on one Configor *)

\* The call c has returned what it returns when run alone: the same target
\* and the same error.
SameAsAlone(c) ==
    LET alone == RunAlone(NewCall(ld[c].typ, ld[c].initial, ld[c].cands))
    IN  /\ ld[c].target = alone.target
        /\ ld[c].err = alone.err

\* A step of a call of Load is taken.
LoadStep == constructed /\ ld' # ld

\* C16: two calls of Load on one Configor, their steps interleaved in any
\* order, each return the target and the error of the call run alone, and no
\* step of Load changes the Config, the global prefix or the environment.
C16_IndependentCalls ==
    /\ [](\A c \in Calls : Done(c) => SameAsAlone(c))
    /\ [][LoadStep =>
            /\ config' = config
            /\ globalPrefix' = globalPrefix
            /\ env' = env
            /\ fs' = fs
            /\ \E c \in Calls : \A o \in Calls \ {c} : ld'[o] = ld[o]]_vars

\* Both calls have returned, with different targets and different errors,
\* each what the call returns when run alone.
C16_Witness ==
    /\ Done("c1")
    /\ Done("c2")
    /\ ld["c1"].target # ld["c2"].target
    /\ ld["c1"].err # ld["c2"].err
    /\ SameAsAlone("c1")
    /\ SameAsAlone("c2")

----------------------------------------------------------------------------
(* Properties of the candidate names *)

\* The names derived from the name or the serialization name of a visited
\* field: bare, under each accumulated prefix and under every enclosing
\* name, as written and upper-cased.
DerivedNames(v) ==
    LET heads == {<< >>} \cup Range(v.prefixes) \cup v.under
        written == {u \o x : u \in heads, x \in NamesOf(v.fd)}
    IN  written \cup {ToUpper(n) : n \in written}

\* The visited fields of the target of call c that declare an env tag.
EnvTagged(c) == {v \in FieldsOf(ld[c].typ, globalPrefix) : v.fd.env # NoName}

\* C17: a field that declares an env tag has no candidate derived from its
\* name or serialization name, and when only such variables are set the
\* field holds, when Load returns, the value it had after file decoding.
C17_EnvTagOnly ==
    \A c \in Calls :
        Done(c) =>
            \A v \in EnvTagged(c) :
                /\ Range(CandidatesOf(v)) \cap DerivedNames(v) = {}
                /\ (DOMAIN env # {} /\ DOMAIN env \subseteq DerivedNames(v)) =>
                      /\ FirstSetOf(v) = 0
                      /\ ld[c].target.val[v.p] = ld[c].afterFiles.val[v.p]

\* A successful Load of a target whose Password field has the env tag
\* DBPassword and the file value 5, with only a variable of a name derived
\* from the field set, to 7: Password is still 5.
C17_Witness ==
    \E c \in Calls :
        /\ Succeeded(c)
        /\ \E v \in EnvTagged(c) :
              /\ \E n \in DerivedNames(v) : DOMAIN env = {n} /\ env[n] = "7"
              /\ ld[c].afterFiles.val[v.p] = 5
              /\ TargetValue(ld[c].target, v.p) = <<5>>

\* The list names holds, for each prefix in order, the prefixed field name,
\* its upper-cased form and, when the field has a serialization name, the
\* prefixed serialization name and its upper-cased form.
InPrefixOrder(names, fd, prefixes) ==
    LET J == getJsonTag(fd)
        m == IF J # NoName THEN 4 ELSE 2
    IN  /\ Len(names) = m * Len(prefixes)
        /\ \A i \in DOMAIN prefixes :
              LET at == m * (i - 1)
              IN  /\ names[at + 1] = prefixes[i] \o <<fd.Name>>
                  /\ names[at + 2] = ToUpper(prefixes[i] \o <<fd.Name>>)
                  /\ J # NoName =>
                        /\ names[at + 3] = prefixes[i] \o J
                        /\ names[at + 4] = ToUpper(prefixes[i] \o J)

\* The index in names of the first variable that is set and not empty; 0 when
\* there is none.
FirstNonEmpty(names) ==
    IF \A k \in DOMAIN names : names[k] \notin DOMAIN env \/ env[names[k]] = ""
    THEN 0
    ELSE CHOOSE k \in DOMAIN names :
            /\ names[k] \in DOMAIN env
            /\ env[names[k]] # ""
            /\ \A h \in 1..(k - 1) : names[h] \notin DOMAIN env \/ env[names[h]] = ""

\* C18: the candidates of a field without env tag that is visited with the
\* prefixes p1..pn, n >= 1, are in prefix order, and the step of the walk at
\* an integer field takes the value of the first candidate that is set and
\* not empty, whatever the later candidates hold: the field then holds the
\* integer parsed from it, and Load returns an error when it is not an
\* integer (when the parsed integer leaves the field blank, the default or
\* required step follows on it).
C18_CandidateOrder ==
    [][\A c \in Calls :
        (AtField(c) /\ ld'[c] # ld[c]) =>
            LET fd == Field(Top(c).tn, Top(c).i)
                p == Top(c).base \o <<Top(c).i>>
                names == getEnvironmentVariables(fd, Top(c).prefixes, globalPrefix)
                first == FirstNonEmpty(names)
                parsed == ParseInt(env[names[first]])
            IN  (fd.env = NoName /\ Top(c).prefixes # << >>) =>
                    /\ InPrefixOrder(names, fd, Top(c).prefixes)
                    /\ (/\ first # 0
                        /\ fd.kind \in {"int", "ptrint"}
                        /\ Settable(ld[c].target, fd, p)) =>
                          LET lookedUp == [ld[c].target EXCEPT !.val[p] = parsed[1]]
                              taken == ld'[c].pc = "walk" /\ ld'[c].target.val[p] = parsed[1]
                          IN  CASE parsed = << >> ->
                                     ld'[c].pc = "done" /\ ld'[c].err.kind = "yaml.TypeError"
                                [] parsed # << >> /\ ~IsBlank(lookedUp, fd, p) -> taken
                                [] parsed # << >> /\ IsBlank(lookedUp, fd, p) ->
                                     IF fd.default # ""
                                     THEN /\ ld'[c].pc = "walk"
                                          /\ ld'[c].target.val[p] = ParseInt(fd.default)[1]
                                     ELSE IF fd.required
                                     THEN ld'[c].pc = "done" /\ ld'[c].err.kind = "required"
                                     ELSE taken]_vars

\* A successful Load in which two candidates of a field with a serialization
\* name were set, the earlier to 7 and a later one to 8: the field holds 7.
C18_Witness ==
    \E c \in Calls :
        /\ Succeeded(c)
        /\ \E v \in FieldsOf(ld[c].typ, globalPrefix) :
              LET names == CandidatesOf(v)
              IN  /\ v.fd.env = NoName
                  /\ v.prefixes # << >>
                  /\ getJsonTag(v.fd) # NoName
                  /\ \E h, g \in DOMAIN names :
                        /\ h < g
                        /\ DOMAIN env = {names[h], names[g]}
                        /\ env[names[h]] = "7"
                        /\ env[names[g]] = "8"
                  /\ ld[c].afterFiles.val[v.p] = 5
                  /\ TargetValue(ld[c].target, v.p) = <<7>>

----------------------------------------------------------------------------
(* Properties of the pointer fields and of the required structures *)

\* C21: when Load returns, every value the walk assigned (from a variable
\* or a default) can be read through the target, the values below a pointer
\* field that was nil included; after a successful Load no pointer field of
\* the target itself is nil any more.
C21_NilPointerMaterialized ==
    \A c \in Calls :
        /\ Done(c) =>
              \A p \in DOMAIN ld[c].target.val :
                  ld[c].target.val[p] # ld[c].afterFiles.val[p] =>
                      TargetValue(ld[c].target, p) = <<ld[c].target.val[p]>>
        /\ Succeeded(c) =>
              \A q \in ld[c].afterFiles.nilp : Len(q) = 1 => q \notin ld[c].target.nilp

\* The field the walk of call c is at is a structure (or a pointer to one)
\* tagged required, without default, that is zero-valued after the files
\* and with none of its own candidate variables set.
AtBlankRequiredStruct(c) ==
    /\ AtField(c)
    /\ LET fd == Field(Top(c).tn, Top(c).i)
           p == Top(c).base \o <<Top(c).i>>
       IN  /\ IsStructKind(fd.kind)
           /\ fd.required
           /\ fd.default = ""
           /\ Settable(ld[c].target, fd, p)
           /\ FirstNonEmpty(getEnvironmentVariables(fd, Top(c).prefixes, globalPrefix)) = 0
           /\ IsBlank(ld[c].target, fd, p)

\* C22: the step of the walk at a blank required structure field returns the
\* missing-required-field error named after the field's last candidate,
\* without entering the structure and without assigning anything, whatever
\* the variables and defaults of the nested fields.
C22_RequiredBeforeRecursion ==
    [][\A c \in Calls :
        (AtBlankRequiredStruct(c) /\ ld'[c] # ld[c]) =>
            LET fd == Field(Top(c).tn, Top(c).i)
                names == getEnvironmentVariables(fd, Top(c).prefixes, globalPrefix)
            IN  /\ ld'[c].pc = "done"
                /\ ld'[c].err = Err("required", ToUpper(names[Len(names)]))
                /\ ld'[c].stack = ld[c].stack
                /\ ld'[c].target = ld[c].target]_vars

\* Load returned the missing-required-field error at the required structure
\* DB while a variable of its nested field Host, which also has a default,
\* was set to 7: Host is still zero.
C22_Witness ==
    \E c \in Calls :
        /\ Done(c)
        /\ ld[c].typ = "ReqCfg"
        /\ ld[c].err.kind = "required"
        /\ Len(ld[c].stack) = 1
        /\ \E v \in FieldsOf("ReqCfg", globalPrefix) :
              /\ v.p = <<1, 1>>
              /\ v.fd.default # ""
              /\ \E n \in Range(CandidatesOf(v)) : DOMAIN env = {n} /\ env[n] = "7"
        /\ ld[c].target.val[<<1, 1>>] = 0

====
